---- MODULE Spec2Model ----
(***************************************************************************)
(* Model of the FIQL parser (package fiqlparser): the lexer of lexer.go,   *)
(* the AST node model and the recursive-descent grammar engine of          *)
(* parser.go.  Text is a sequence of one-character strings; a node         *)
(* pointer is an index into the heap of nodes, 0 being nil.                *)
(***************************************************************************)
EXTENDS Integers, Sequences, FiniteSets, TLC

(***************************************************************************)
(* Bounds of the checked input sets.                                       *)
(***************************************************************************)
\* longest input, in lexemes, of the general input family
MaxPieces == 4
\* longest input, in lexemes, of the grouping input family
MaxGroupPieces == 7
\* longest chain, in units, of the chain input family
MaxUnits == 3
\* longest input, in characters, of the comparator input family
MaxComparatorPieces == 4
\* longest literal, in characters, of the literal input family
MaxLiteralPieces == 4
\* longest argument, in characters, of the classified argument family
MaxArgumentChars == 3
\* longest literal, in characters, of the duration character family
MaxDurationChars == 4
\* longest literal, in components and markers, of the duration item family
MaxDurationItems == 4
\* longest input, in lexemes, of the first call on a reused parser
MaxFirstPieces == 3
\* longest input, in pieces, of the lexer
MaxLexPieces == 3

(***************************************************************************)
(* lexer.go: token types                                                   *)
(***************************************************************************)
tokenValue == 10
tokenWildcard == 11
tokenBraceOpen == 20
tokenBraceClose == 21
tokenAND == 50
tokenOR == 51
tokenCompareEqual == 61
tokenCompareNotEqual == 62
tokenCompareGt == 63
tokenCompareLt == 64
tokenCompareGte == 65
tokenCompareLte == 66
tokenComapreIn == 67
tokenCompareQ == 68
tokenEOF == 0

\* tokenType.String()
tokenTypeString(t) ==
    CASE t = tokenValue -> <<"V", "a", "l", "u", "e">>
      [] t = tokenWildcard -> <<"*">>
      [] t = tokenBraceOpen -> <<"(">>
      [] t = tokenBraceClose -> <<")">>
      [] t = tokenAND -> <<"A", "N", "D">>
      [] t = tokenOR -> <<"O", "R">>
      [] t = tokenCompareEqual -> <<"=", "=">>
      [] t = tokenCompareNotEqual -> <<"<", ">">>
      [] t = tokenCompareGt -> <<">">>
      [] t = tokenCompareLt -> <<"<">>
      [] t = tokenCompareGte -> <<">", "=">>
      [] t = tokenCompareLte -> <<"<", "=">>
      [] t = tokenComapreIn -> <<"i", "n">>
      [] t = tokenCompareQ -> <<"q", "u", "e", "r", "y">>
      [] OTHER -> <<"e", "o", "f">>

isCompareToken(t) ==
    t \in {tokenCompareEqual, tokenCompareNotEqual, tokenCompareGt, tokenCompareLt,
           tokenCompareGte, tokenCompareLte, tokenComapreIn, tokenCompareQ}

isNumberOrDateComparision(t) ==
    t \in {tokenCompareGt, tokenCompareLt, tokenCompareGte, tokenCompareLte}

isLogicToken(t) == t = tokenAND \/ t = tokenOR

\* a closing brace not counted among the tokens that make a value unary
isSeperatorUnary_noBrace(t) == isLogicToken(t) \/ t = tokenEOF

\* isSeperatorUnary is called by Parser.build but its body is not part of the
\* available sources; it is taken from the description of unary selectors:
\* a logic token, a closing brace or end of input follows the value.
isSeperatorUnary(t) == isLogicToken(t) \/ t = tokenBraceClose \/ t = tokenEOF

(***************************************************************************)
(* Errors.  An error value is a record; nil is NoErr.  hasPos tells        *)
(* whether the message carries the ln:<line>:<col> prefix.                 *)
(***************************************************************************)
NoErr == [kind |-> "nil", hasPos |-> FALSE, ln |-> 0, col |-> 0, got |-> <<>>, hint |-> ""]

ErrUnexpectedEOF ==
    [kind |-> "unexpected end of file", hasPos |-> FALSE, ln |-> 0, col |-> 0,
     got |-> <<>>, hint |-> ""]

\* fmt.Errorf("ln:%d:%d ...", p.ln, p.posInLine, ...)
ErrorAt(l, kind, got, hint) ==
    [kind |-> kind, hasPos |-> TRUE, ln |-> l.ln, col |-> l.posInLine,
     got |-> got, hint |-> hint]

ComparatorHint == "one of ==,!=,=gt=,=ge=,=lt=,=le=,=in=,=q="

(***************************************************************************)
(* lexer.go: the lexer cursor and its operations                           *)
(***************************************************************************)
\* the value v under the name of F's parameter: v := ...; F(v)
Let(v, F(_)) == F(v)

\* &lexer{[]rune(input), 0, 1, 0, ""}
NewLexer(in) == [input |-> in, pos |-> 0, ln |-> 1, posInLine |-> 0, currentVal |-> <<>>]

\* unicode.IsSpace, on the characters the inputs are made of
IsSpace(r) == r \in {" ", "\n", "\t", "\r"}

\* strings.ToLower, on the letters a comparator may contain
ToLowerRune(r) ==
    CASE r = "G" -> "g" [] r = "L" -> "l" [] r = "T" -> "t" [] r = "E" -> "e"
      [] r = "Q" -> "q" [] r = "I" -> "i" [] r = "N" -> "n" [] OTHER -> r

ToLower(s) == [i \in 1..Len(s) |-> ToLowerRune(s[i])]

\* lexer.lastValue
lastValue(l) == l.currentVal

\* lexer.peek: the rune under the cursor, ok = FALSE at end of input
peek(l) ==
    IF l.pos < Len(l.input)
    THEN [r |-> l.input[l.pos + 1], ok |-> TRUE]
    ELSE [r |-> "", ok |-> FALSE]

\* lexer.consume: the cursor after reading one rune (callers take the rune
\* with peek before)
consume(l) ==
    IF l.input[l.pos + 1] = "\n"
    THEN [l EXCEPT !.ln = @ + 1, !.posInLine = 0, !.pos = @ + 1]
    ELSE [l EXCEPT !.posInLine = @ + 1, !.pos = @ + 1]

\* lexer.toCompareToken
toCompareToken(l, cmp) ==
    LET c == ToLower(cmp) IN
    CASE c = <<"=", "=">> -> [lex |-> l, t |-> tokenCompareEqual, err |-> NoErr]
      [] c = <<"!", "=">> -> [lex |-> l, t |-> tokenCompareNotEqual, err |-> NoErr]
      [] c = <<"=", "g", "t", "=">> -> [lex |-> l, t |-> tokenCompareGt, err |-> NoErr]
      [] c = <<"=", "g", "e", "=">> -> [lex |-> l, t |-> tokenCompareGte, err |-> NoErr]
      [] c = <<"=", "l", "t", "=">> -> [lex |-> l, t |-> tokenCompareLt, err |-> NoErr]
      [] c = <<"=", "l", "e", "=">> -> [lex |-> l, t |-> tokenCompareLte, err |-> NoErr]
      [] c = <<"=", "i", "n", "=">> -> [lex |-> l, t |-> tokenComapreIn, err |-> NoErr]
      [] c = <<"=", "q", "=">> -> [lex |-> l, t |-> tokenCompareQ, err |-> NoErr]
      [] OTHER -> [lex |-> l, t |-> tokenEOF,
                   err |-> ErrorAt(l, "unexpected input", cmp, ComparatorHint)]

ComparatorRunes == {"=", "g", "l", "t", "e", "q", "i", "n"}

\* the for loop of lexer.readComparator, b being the buffer read so far
RECURSIVE readComparatorLoop(_, _)
readComparatorLoop(l, b) ==
    LET pk == peek(l) IN
    IF ~pk.ok THEN [lex |-> l, t |-> tokenEOF, err |-> ErrUnexpectedEOF]
    ELSE IF pk.r \notin ComparatorRunes
    THEN [lex |-> l, t |-> tokenEOF,
          err |-> ErrorAt(l, "unexpected input", Append(b, pk.r), ComparatorHint)]
    ELSE IF pk.r = "=" THEN toCompareToken(consume(l), Append(b, pk.r))
    ELSE readComparatorLoop(consume(l), Append(b, pk.r))

\* lexer.readComparator
readComparator(l) == readComparatorLoop(consume(l), <<peek(l).r>>)

ValueDelimiters == {";", ",", "!", "=", ")", "*"}

RECURSIVE readValueLoop(_, _, _)

\* the loop with a delimiter ending the value whether escaped or not
readValueLoop_delimiterEnds(l, b, escaped) ==
    IF l.pos >= Len(l.input) THEN [lex |-> l, b |-> b]
    ELSE LET v == peek(l).r IN
         IF IsSpace(v) THEN [lex |-> l, b |-> b]
         ELSE IF v \in ValueDelimiters THEN [lex |-> l, b |-> b]
         ELSE IF v = "\\" /\ ~escaped THEN readValueLoop(consume(l), b, TRUE)
         ELSE readValueLoop(consume(l), Append(b, v), FALSE)

\* the for loop of lexer.readValue
readValueLoop(l, b, escaped) ==
    IF l.pos >= Len(l.input) THEN [lex |-> l, b |-> b]
    ELSE LET v == peek(l).r IN
         IF IsSpace(v) THEN [lex |-> l, b |-> b]
         ELSE IF ~escaped /\ v \in ValueDelimiters THEN [lex |-> l, b |-> b]
         ELSE IF v = "\\" /\ ~escaped THEN readValueLoop(consume(l), b, TRUE)
         ELSE readValueLoop(consume(l), Append(b, v), FALSE)

\* lexer.readValue
readValue(l) ==
    Let(IF peek(l).r = "\\" THEN readValueLoop(consume(l), <<>>, TRUE)
        ELSE readValueLoop(consume(l), <<peek(l).r>>, FALSE), LAMBDA r :
    [lex |-> [r.lex EXCEPT !.currentVal = r.b], t |-> tokenValue, val |-> r.b, err |-> NoErr])

\* lexer.ConsumeToken
RECURSIVE ConsumeToken(_)
ConsumeToken(l) ==
    LET pk == peek(l) IN
    IF ~pk.ok THEN [lex |-> l, t |-> tokenEOF, err |-> NoErr]
    ELSE IF IsSpace(pk.r) THEN ConsumeToken(consume(l))
    ELSE IF pk.r = "!" \/ pk.r = "=" THEN readComparator(l)
    ELSE IF pk.r = "(" THEN [lex |-> consume(l), t |-> tokenBraceOpen, err |-> NoErr]
    ELSE IF pk.r = ")" THEN [lex |-> consume(l), t |-> tokenBraceClose, err |-> NoErr]
    ELSE IF pk.r = ";" THEN [lex |-> consume(l), t |-> tokenAND, err |-> NoErr]
    ELSE IF pk.r = "," THEN [lex |-> consume(l), t |-> tokenOR, err |-> NoErr]
    ELSE IF pk.r = "*" THEN [lex |-> consume(l), t |-> tokenWildcard, err |-> NoErr]
    ELSE Let(readValue(l), LAMBDA rv : [lex |-> rv.lex, t |-> rv.t, err |-> rv.err])

\* PeekNextToken with the last literal of the trial left in the lexer
PeekNextToken_keepsLiteral(l) ==
    Let(ConsumeToken(l), LAMBDA c :
    [lex |-> [c.lex EXCEPT !.ln = l.ln, !.pos = l.pos, !.posInLine = l.posInLine],
     t |-> c.t, val |-> c.lex.currentVal, err |-> c.err])

\* lexer.PeekNextToken: a trial ConsumeToken, the cursor restored after it
PeekNextToken(l) ==
    Let(ConsumeToken(l), LAMBDA c :
    [lex |-> [c.lex EXCEPT !.currentVal = l.currentVal, !.ln = l.ln, !.pos = l.pos,
                           !.posInLine = l.posInLine],
     t |-> c.t, val |-> c.lex.currentVal, err |-> c.err])

(***************************************************************************)
(* parser.go: value classification                                         *)
(***************************************************************************)
Digits == {"0", "1", "2", "3", "4", "5", "6", "7", "8", "9"}

ValueRecommendationString == "string"
ValueRecommendationDateTime == "datetime"
ValueRecommendationDuration == "duration"
ValueRecommendationNumber == "number"

\* numericRegex ^(\+|-|)[0-9\.]+$
numericRegex(s) ==
    LET body == IF Len(s) > 0 /\ s[1] \in {"+", "-"} THEN Tail(s) ELSE s
    IN Len(body) > 0 /\ \A i \in 1..Len(body) : body[i] \in Digits \cup {"."}

\* the index after the longest run of digits of s that starts at index i
RECURSIVE SkipDigits(_, _)
SkipDigits(s, i) == IF i <= Len(s) /\ s[i] \in Digits THEN SkipDigits(s, i + 1) ELSE i

\* \d+(?:\.\d+)? at index i of s: the index after the number, 0 if there is none
MatchNumber(s, i) ==
    LET j == SkipDigits(s, i) IN
    IF j = i THEN 0
    ELSE IF j <= Len(s) /\ s[j] = "."
         THEN LET k == SkipDigits(s, j + 1) IN IF k = j + 1 THEN 0 ELSE k
         ELSE j

\* (?:<number>U1)?(?:<number>U2)?... at index i of s, for the unit markers
\* units: the index after the last component matched, 0 on a mismatch
RECURSIVE MatchComponents(_, _, _)
MatchComponents(s, i, units) ==
    IF i > Len(s) \/ s[i] \notin Digits THEN i
    ELSE LET j == MatchNumber(s, i) IN
         IF j = 0 \/ j > Len(s) THEN 0
         ELSE LET ks == {k \in 1..Len(units) : units[k] = s[j]} IN
              IF ks = {} THEN 0
              ELSE LET k == CHOOSE x \in ks : TRUE
                   IN MatchComponents(s, j + 1, SubSeq(units, k + 1, Len(units)))

\* durationRegex ^(\+|-|)P(..Y)?(..M)?(..W)?(..D)?(?:T(..H)?(..M)?(..S)?)?$
durationRegex(s) ==
    LET body == IF Len(s) > 0 /\ s[1] \in {"+", "-"} THEN Tail(s) ELSE s IN
    /\ Len(body) > 0
    /\ body[1] = "P"
    /\ LET i == MatchComponents(body, 2, <<"Y", "M", "W", "D">>) IN
       /\ i # 0
       /\ \/ i = Len(body) + 1
          \/ /\ body[i] = "T"
             /\ MatchComponents(body, i + 1, <<"H", "M", "S">>) = Len(body) + 1

\* the number spelled by the two digits of s at index i
TwoDigits(s, i) ==
    LET d(c) == CHOOSE n \in 0..9 : <<"0", "1", "2", "3", "4", "5", "6", "7", "8", "9">>[n + 1] = c
    IN 10 * d(s[i]) + d(s[i + 1])

\* the number of days of the month of the year
DaysIn(month, year) ==
    IF month = 2
    THEN IF year % 4 = 0 /\ (year % 100 # 0 \/ year % 400 = 0) THEN 29 ELSE 28
    ELSE IF month \in {4, 6, 9, 11} THEN 30 ELSE 31

\* the zone of an RFC 3339 date-time at index i of s, up to the end of s:
\* Z, or a sign, two digits of hours, a colon and two digits of minutes
IsZone(s, i) ==
    \/ i = Len(s) /\ s[i] = "Z"
    \/ /\ i + 5 = Len(s)
       /\ s[i] \in {"+", "-"}
       /\ s[i + 1] \in Digits /\ s[i + 2] \in Digits
       /\ s[i + 3] = ":"
       /\ s[i + 4] \in Digits /\ s[i + 5] \in Digits
       /\ TwoDigits(s, i + 1) \in 0..23
       /\ TwoDigits(s, i + 4) \in 0..59

\* isDateValue: time.Parse(time.RFC3339, s) succeeds.  The layout is
\* 2006-01-02T15:04:05Z07:00: year, month, day, hour, minute and second in
\* fixed width and in range, the day within the month, an optional fraction
\* of a second after the seconds, and the zone
isDateValue(s) ==
    /\ Len(s) >= 20
    /\ \A i \in {1, 2, 3, 4, 6, 7, 9, 10, 12, 13, 15, 16, 18, 19} : s[i] \in Digits
    /\ s[5] = "-" /\ s[8] = "-" /\ s[11] = "T" /\ s[14] = ":" /\ s[17] = ":"
    /\ TwoDigits(s, 6) \in 1..12
    /\ TwoDigits(s, 9) \in 1..DaysIn(TwoDigits(s, 6), 100 * TwoDigits(s, 1) + TwoDigits(s, 3))
    /\ TwoDigits(s, 12) \in 0..23
    /\ TwoDigits(s, 15) \in 0..59
    /\ TwoDigits(s, 18) \in 0..59
    /\ IF s[20] = "."
       THEN /\ SkipDigits(s, 21) > 21
            /\ SkipDigits(s, 21) <= Len(s)
            /\ IsZone(s, SkipDigits(s, 21))
       ELSE IsZone(s, 20)

\* the validator without its duration case
numberOrDateExpressionValidator_noDuration(i) ==
    IF numericRegex(i) THEN [ok |-> TRUE, rec |-> ValueRecommendationNumber, msg |-> ""]
    ELSE IF isDateValue(i) THEN [ok |-> TRUE, rec |-> ValueRecommendationDateTime, msg |-> ""]
    ELSE [ok |-> FALSE, rec |-> ValueRecommendationString, msg |-> "number or date or duration"]

\* numberOrDateExpressionValidator
numberOrDateExpressionValidator(i) ==
    IF numericRegex(i) THEN [ok |-> TRUE, rec |-> ValueRecommendationNumber, msg |-> ""]
    ELSE IF isDateValue(i) THEN [ok |-> TRUE, rec |-> ValueRecommendationDateTime, msg |-> ""]
    ELSE IF durationRegex(i) THEN [ok |-> TRUE, rec |-> ValueRecommendationDuration, msg |-> ""]
    ELSE [ok |-> FALSE, rec |-> ValueRecommendationString, msg |-> "number or date or duration"]

\* the validator without its date-time case
defaultValidator_noDateTime(i) ==
    IF durationRegex(i) THEN [ok |-> TRUE, rec |-> ValueRecommendationDuration, msg |-> ""]
    ELSE IF numericRegex(i) THEN [ok |-> TRUE, rec |-> ValueRecommendationNumber, msg |-> ""]
    ELSE [ok |-> TRUE, rec |-> ValueRecommendationString, msg |-> ""]

\* defaultValidator
defaultValidator(i) ==
    IF isDateValue(i) THEN [ok |-> TRUE, rec |-> ValueRecommendationDateTime, msg |-> ""]
    ELSE IF durationRegex(i) THEN [ok |-> TRUE, rec |-> ValueRecommendationDuration, msg |-> ""]
    ELSE IF numericRegex(i) THEN [ok |-> TRUE, rec |-> ValueRecommendationNumber, msg |-> ""]
    ELSE [ok |-> TRUE, rec |-> ValueRecommendationString, msg |-> ""]

\* the validator handleBinaryExpression selects for comparator t, applied to i
validatorFor(t, i) ==
    IF isNumberOrDateComparision(t) THEN numberOrDateExpressionValidator(i)
    ELSE defaultValidator(i)

(***************************************************************************)
(* parser.go: the AST node model.  The three node types share one record   *)
(* shape; the fields a type does not have keep their zero value.           *)
(***************************************************************************)
NodeTypeExpression == "Expr"
NodeTypeBinary == "Binary"
NodeTypeConstant == "Const"

ZeroNode ==
    [type |-> "", root |-> FALSE, node |-> 0, operator |-> <<>>, nodes |-> <<0, 0>>,
     prefixWildcard |-> FALSE, suffixWildcard |-> FALSE, selector |-> FALSE,
     value |-> <<>>, recommended |-> "", unary |-> FALSE]

\* &Expression{root: root}
Expression(root) == [ZeroNode EXCEPT !.type = NodeTypeExpression, !.root = root]

\* &binaryExpression{nodes: [2]Node{nil, nil}} with its operator
binaryExpression(operator) == [ZeroNode EXCEPT !.type = NodeTypeBinary, !.operator = operator]

\* the Constant built without its prefix wildcard flag
constantExpression_noPrefix(value, selector, prefixWildcard, recommended, unary) ==
    [ZeroNode EXCEPT !.type = NodeTypeConstant, !.value = value, !.selector = selector,
                     !.recommended = recommended, !.unary = unary]

\* &constantExpression{...}
constantExpression(value, selector, prefixWildcard, recommended, unary) ==
    [ZeroNode EXCEPT !.type = NodeTypeConstant, !.value = value, !.selector = selector,
                     !.prefixWildcard = prefixWildcard, !.recommended = recommended,
                     !.unary = unary]

\* Node.isRoot
isRoot(heap, n) == heap[n].type = NodeTypeExpression /\ heap[n].root

\* Node.NodeType
NodeType(heap, n) == heap[n].type

\* Node.Children: an Expression lists its (possibly nil) child, a Binary its
\* non-nil children, a Constant nothing
Children(heap, n) ==
    CASE heap[n].type = NodeTypeExpression -> <<heap[n].node>>
      [] heap[n].type = NodeTypeBinary -> SelectSeq(heap[n].nodes, LAMBDA c : c # 0)
      [] OTHER -> <<>>

\* Add with the slots of a Binary filled in the wrong order: the first child
\* added becomes the right one
Add_rightFirst(heap, n, child) ==
    CASE heap[n].type = NodeTypeExpression ->
           IF heap[n].node # 0
           THEN [heap |-> heap, panic |-> "node may not have more than one child"]
           ELSE [heap |-> [heap EXCEPT ![n].node = child], panic |-> ""]
      [] heap[n].type = NodeTypeBinary ->
           IF heap[n].nodes[2] = 0
           THEN [heap |-> [heap EXCEPT ![n].nodes[2] = child], panic |-> ""]
           ELSE IF heap[n].nodes[1] = 0
           THEN [heap |-> [heap EXCEPT ![n].nodes[1] = child], panic |-> ""]
           ELSE [heap |-> heap, panic |-> "binary node cant hold more than two values"]
      [] OTHER -> [heap |-> heap, panic |-> "constant should not have a child"]

\* Add with a Binary that stores every child in its first slot
Add_firstSlotOnly(heap, n, child) ==
    CASE heap[n].type = NodeTypeExpression ->
           IF heap[n].node # 0
           THEN [heap |-> heap, panic |-> "node may not have more than one child"]
           ELSE [heap |-> [heap EXCEPT ![n].node = child], panic |-> ""]
      [] heap[n].type = NodeTypeBinary ->
           [heap |-> [heap EXCEPT ![n].nodes[1] = child], panic |-> ""]
      [] OTHER -> [heap |-> heap, panic |-> "constant should not have a child"]

\* Node.Add: the heap after n.Add(child), and the panic raised if any
Add(heap, n, child) ==
    CASE heap[n].type = NodeTypeExpression ->
           IF heap[n].node # 0
           THEN [heap |-> heap, panic |-> "node may not have more than one child"]
           ELSE [heap |-> [heap EXCEPT ![n].node = child], panic |-> ""]
      [] heap[n].type = NodeTypeBinary ->
           IF heap[n].nodes[1] = 0
           THEN [heap |-> [heap EXCEPT ![n].nodes[1] = child], panic |-> ""]
           ELSE IF heap[n].nodes[2] = 0
           THEN [heap |-> [heap EXCEPT ![n].nodes[2] = child], panic |-> ""]
           ELSE [heap |-> heap, panic |-> "binary node cant hold more than two values"]
      [] OTHER -> [heap |-> heap, panic |-> "constant should not have a child"]

\* allocation of a new node: the heap with it and the pointer to it
New(heap, node) == [heap |-> Append(heap, node), n |-> Len(heap) + 1]

(***************************************************************************)
(* parser.go: the grammar engine.  The parser state p is the lexer cursor  *)
(* and the heap of nodes, with two history fields: consumed, the record of *)
(* every ConsumeToken call the parser made, and builds, the number of      *)
(* calls of build.  Every procedure returns the state after it, the node   *)
(* it returns, its error and the panic it raised ("" for none).            *)
(***************************************************************************)
Ret(p, n, err) == [p |-> p, n |-> n, err |-> err, panic |-> ""]

Panic(p, n, msg) == [p |-> p, n |-> n, err |-> NoErr, panic |-> msg]

\* p.lex.ConsumeToken() as the parser calls it; site names the call in
\* parser.go: "unit" (build, 649), "close" (build, 661), "comparator"
\* (handleBinaryExpression, 535), "argument" (handleArgumentConstant, 467 and
\* 473), "suffix" (handleArgumentConstant, 490), "logic" (handleUnaryExpression
\* 508, handleBinaryExpression 560, mergeSubExpression 631)
Consume(p, site) ==
    Let(ConsumeToken(p.lex), LAMBDA c :
    [p |-> [p EXCEPT !.lex = c.lex,
                     !.consumed = Append(@, [t |-> c.t, val |-> c.lex.currentVal,
                                             site |-> site,
                                             from |-> p.lex.pos, to |-> c.lex.pos,
                                             failed |-> c.err # NoErr])],
     t |-> c.t, err |-> c.err])

\* a peek that leaves the cursor after the token it read
Peek_noRestore(p) ==
    Let(ConsumeToken(p.lex), LAMBDA c :
    [p |-> [p EXCEPT !.lex = c.lex], t |-> c.t, err |-> c.err])

\* p.lex.PeekNextToken() as the parser calls it
Peek(p) ==
    Let(PeekNextToken(p.lex), LAMBDA c :
    [p |-> [p EXCEPT !.lex = c.lex], t |-> c.t, err |-> c.err])

\* fmt.Errorf("ln:%d:%d syntax error (got `%s` but expected %s)", ...)
SyntaxError(p, got, hint) == ErrorAt(p.lex, "syntax error", got, hint)

\* fmt.Errorf("ln:%d:%d syntax error (invalid closing brace `)` )", ...)
InvalidClosingBrace(p) == ErrorAt(p.lex, "invalid closing brace", <<>>, "")

\* the unclosed brace error built with the message of the invalid closing
\* brace error
UnclosedBrace_asInvalid(p) == ErrorAt(p.lex, "invalid closing brace", <<>>, "")

\* fmt.Errorf("ln:%d:%d syntax error (unclosed brace `)` )", ...)
UnclosedBrace(p) == ErrorAt(p.lex, "unclosed brace", <<>>, "")

\* fmt.Errorf("ln:%d:%d dangling operator", ...)
DanglingOperator(p) == ErrorAt(p.lex, "dangling operator", <<>>, "")

\* fmt.Errorf("ln:%d:%d dangling comparator", ...)
DanglingComparator(p) == ErrorAt(p.lex, "dangling comparator", <<>>, "")

\* Parser.handleArgumentConstant, for the validator of comparator cmp
handleArgumentConstant(p, cmp) ==
    Let(Consume(p, "argument"), LAMBDA c1 :
    IF c1.err # NoErr THEN Ret(c1.p, 0, c1.err)
    ELSE
    LET prefixWildcard == c1.t = tokenWildcard IN
    Let(IF prefixWildcard THEN Consume(c1.p, "argument") ELSE c1, LAMBDA c2 :
    IF c2.err # NoErr THEN Ret(c2.p, 0, c2.err)
    ELSE IF c2.t # tokenValue
    THEN Ret(c2.p, 0, SyntaxError(c2.p, tokenTypeString(c2.t), "a value"))
    ELSE
    Let(validatorFor(cmp, lastValue(c2.p.lex)), LAMBDA v :
    IF ~v.ok THEN Ret(c2.p, 0, SyntaxError(c2.p, lastValue(c2.p.lex), v.msg))
    ELSE
    Let(New(c2.p.heap,
            constantExpression(lastValue(c2.p.lex), FALSE, prefixWildcard, v.rec, FALSE)),
        LAMBDA a :
    Let(Peek([c2.p EXCEPT !.heap = a.heap]), LAMBDA pk :
    IF pk.err # NoErr THEN Ret(pk.p, 0, pk.err)
    ELSE IF pk.t # tokenWildcard THEN Ret(pk.p, a.n, NoErr)
    ELSE
    Let(Consume(pk.p, "suffix"), LAMBDA c3 :
    IF c3.err # NoErr THEN Ret(c3.p, 0, c3.err)
    ELSE Ret([c3.p EXCEPT !.heap[a.n].suffixWildcard = TRUE], a.n, NoErr)))))))

\* Parser.checkDanglingChild
checkDanglingChild(p, n) ==
    NodeType(p.heap, n) = NodeTypeBinary /\ Len(Children(p.heap, n)) # 2

\* checkImpossibleTokensOnEnter reporting a comparator as an operator
checkImpossibleTokensOnEnter_asOperator(p, t) ==
    IF t = tokenBraceClose THEN ErrorAt(p.lex, "invalid closing brace", <<>>, "")
    ELSE IF isLogicToken(t) \/ isCompareToken(t)
    THEN ErrorAt(p.lex, "dangling operator", <<>>, "")
    ELSE NoErr

\* Parser.checkImpossibleTokensOnEnter
checkImpossibleTokensOnEnter(p, t) ==
    IF t = tokenBraceClose THEN InvalidClosingBrace(p)
    ELSE IF isLogicToken(t) THEN DanglingOperator(p)
    ELSE IF isCompareToken(t) THEN DanglingComparator(p)
    ELSE NoErr

\* checkForEOF without the check of the node under construction
checkForEOF_noDangling(p, t, node) ==
    IF t = tokenEOF THEN [ok |-> TRUE, err |-> NoErr] ELSE [ok |-> FALSE, err |-> NoErr]

\* Parser.checkForEOF
checkForEOF(p, t, node) ==
    IF t = tokenEOF
    THEN IF checkDanglingChild(p, node)
         THEN [ok |-> TRUE, err |-> DanglingOperator(p)]
         ELSE [ok |-> TRUE, err |-> NoErr]
    ELSE [ok |-> FALSE, err |-> NoErr]

\* Parser.checkEndOrError
checkEndOrError(p, t, parent) ==
    Let(checkForEOF(p, t, parent), LAMBDA e :
    IF e.ok THEN e
    ELSE Let(checkImpossibleTokensOnEnter(p, t), LAMBDA i :
         IF i # NoErr THEN [ok |-> TRUE, err |-> i] ELSE [ok |-> FALSE, err |-> NoErr]))

RECURSIVE build(_, _)

\* Parser.handleSubExpression
handleSubExpression(p, parent) ==
    Let(New(p.heap, Expression(FALSE)), LAMBDA a :
    LET expr == a.n IN
    Let(build([p EXCEPT !.heap = a.heap], expr), LAMBDA r :
    IF r.panic # "" THEN r
    ELSE IF r.err # NoErr THEN Ret(r.p, expr, r.err)
    ELSE Ret([r.p EXCEPT !.heap[expr].node = r.n], expr, NoErr)))

\* Parser.handleUnaryExpression
handleUnaryExpression(p, parent) ==
    Let(New(p.heap,
            constantExpression(lastValue(p.lex), TRUE, FALSE, ValueRecommendationString, TRUE)),
        LAMBDA a :
    LET unary == a.n IN
    Let(Peek([p EXCEPT !.heap = a.heap]), LAMBDA pk :
    IF pk.err # NoErr THEN Ret(pk.p, unary, pk.err)
    ELSE IF isLogicToken(pk.t) THEN
    Let(Consume(pk.p, "logic"), LAMBDA lg :
    IF lg.err # NoErr THEN Ret(lg.p, unary, lg.err)
    ELSE
    Let(New(lg.p.heap, binaryExpression(tokenTypeString(lg.t))), LAMBDA b :
    LET conj == b.n IN
    Let(Add(b.heap, conj, unary), LAMBDA adl :
    Let(build([lg.p EXCEPT !.heap = adl.heap], conj), LAMBDA rhs :
    IF rhs.panic # "" THEN rhs
    ELSE IF rhs.err # NoErr THEN Ret(rhs.p, conj, rhs.err)
    ELSE
    Let(Add(rhs.p.heap, conj, rhs.n), LAMBDA adr :
    IF adr.panic # "" THEN Panic(rhs.p, conj, adr.panic)
    ELSE Ret([rhs.p EXCEPT !.heap = adr.heap], conj, NoErr))))))
    ELSE IF isCompareToken(pk.t) THEN Ret(pk.p, unary, DanglingComparator(pk.p))
    ELSE IF pk.t = tokenBraceClose /\ isRoot(pk.p.heap, parent)
    THEN Ret(pk.p, unary, InvalidClosingBrace(pk.p))
    ELSE Ret(pk.p, unary, NoErr)))

\* Parser.handleBinaryExpression
handleBinaryExpression(p, t, parent) ==
    Let(New(p.heap, binaryExpression(tokenTypeString(t))), LAMBDA a :
    LET bin == a.n IN
    Let(New(a.heap,
            constantExpression(lastValue(p.lex), TRUE, FALSE, ValueRecommendationString, FALSE)),
        LAMBDA s :
    Let(Add(s.heap, bin, s.n), LAMBDA ad1 :
    Let(Consume([p EXCEPT !.heap = ad1.heap], "comparator"), LAMBDA c :
    IF c.err # NoErr THEN Ret(c.p, bin, c.err)
    ELSE IF ~isCompareToken(c.t)
    THEN Ret(c.p, bin, SyntaxError(c.p, tokenTypeString(c.t), "a value"))
    ELSE
    Let(handleArgumentConstant([c.p EXCEPT !.heap[bin].operator = tokenTypeString(c.t)], c.t),
        LAMBDA con :
    IF con.err # NoErr THEN Ret(con.p, bin, con.err)
    ELSE
    Let(Add(con.p.heap, bin, con.n), LAMBDA ad2 :
    Let(Peek([con.p EXCEPT !.heap = ad2.heap]), LAMBDA pk :
    IF pk.err # NoErr THEN Ret(pk.p, bin, pk.err)
    ELSE IF isLogicToken(pk.t) THEN
    Let(Consume(pk.p, "logic"), LAMBDA lg :
    IF lg.err # NoErr THEN Ret(lg.p, bin, lg.err)
    ELSE
    Let(New(lg.p.heap, binaryExpression(tokenTypeString(lg.t))), LAMBDA b :
    LET conj == b.n IN
    Let(Add(b.heap, conj, bin), LAMBDA adl :
    Let(build([lg.p EXCEPT !.heap = adl.heap], conj), LAMBDA rhs :
    IF rhs.panic # "" THEN rhs
    ELSE IF rhs.err # NoErr THEN Ret(rhs.p, conj, rhs.err)
    ELSE
    Let(Add(rhs.p.heap, conj, rhs.n), LAMBDA adr :
    IF adr.panic # "" THEN Panic(rhs.p, conj, adr.panic)
    ELSE Ret([rhs.p EXCEPT !.heap = adr.heap], conj, NoErr))))))
    ELSE IF isCompareToken(pk.t) THEN Ret(pk.p, bin, DanglingComparator(pk.p))
    ELSE IF pk.t = tokenBraceClose /\ isRoot(pk.p.heap, parent)
    THEN Ret(pk.p, bin, InvalidClosingBrace(pk.p))
    ELSE Ret(pk.p, bin, NoErr))))))))

\* Parser.mergeSubExpression
mergeSubExpression(p, sub, parent) ==
    Let(Consume(p, "logic"), LAMBDA c :
    IF c.err # NoErr THEN Ret(c.p, parent, c.err)
    ELSE
    Let(New(c.p.heap, binaryExpression(tokenTypeString(c.t))), LAMBDA a :
    LET conj == a.n IN
    Let(Add(a.heap, conj, sub), LAMBDA ad1 :
    Let(build([c.p EXCEPT !.heap = ad1.heap], conj), LAMBDA r :
    IF r.panic # "" THEN r
    ELSE IF r.err # NoErr THEN Ret(r.p, conj, r.err)
    ELSE
    Let(Add(r.p.heap, conj, r.n), LAMBDA ad2 :
    IF ad2.panic # "" THEN Panic(r.p, conj, ad2.panic)
    ELSE
    Let(Add(ad2.heap, parent, conj), LAMBDA ad3 :
    IF ad3.panic # "" THEN Panic([r.p EXCEPT !.heap = ad2.heap], parent, ad3.panic)
    ELSE Ret([r.p EXCEPT !.heap = ad3.heap], parent, NoErr)))))))

\* the tokenBraceOpen branch of Parser.build (parser.go 656-681)
buildGroup(p, parent) ==
    Let(handleSubExpression(p, parent), LAMBDA sub :
    IF sub.panic # "" THEN sub
    ELSE IF sub.err # NoErr THEN Ret(sub.p, parent, sub.err)
    ELSE
    Let(Consume(sub.p, "close"), LAMBDA c :
    IF c.err # NoErr THEN Ret(c.p, parent, c.err)
    ELSE IF c.t # tokenBraceClose THEN Ret(c.p, parent, UnclosedBrace(c.p))
    ELSE
    Let(Peek(c.p), LAMBDA pk :
    IF pk.err # NoErr THEN Ret(pk.p, parent, pk.err)
    ELSE IF isLogicToken(pk.t) THEN mergeSubExpression(pk.p, sub.n, parent)
    ELSE IF NodeType(pk.p.heap, parent) = NodeTypeExpression
    THEN Let(Add(pk.p.heap, parent, sub.n), LAMBDA ad :
         IF ad.panic # "" THEN Panic(pk.p, parent, ad.panic)
         ELSE Ret([pk.p EXCEPT !.heap = ad.heap], parent, NoErr))
    ELSE Ret(pk.p, sub.n, NoErr))))

\* the tokenValue branch of Parser.build (parser.go 683-699)
buildValue(p, t, parent) ==
    Let(Peek(p), LAMBDA pk :
    IF pk.err # NoErr THEN Ret(pk.p, parent, pk.err)
    ELSE
    Let(IF isSeperatorUnary(pk.t) THEN handleUnaryExpression(pk.p, parent)
        ELSE handleBinaryExpression(pk.p, t, parent), LAMBDA r :
    IF r.panic # "" THEN r
    ELSE IF isRoot(r.p.heap, parent)
    THEN Let(Add(r.p.heap, parent, r.n), LAMBDA ad :
         IF ad.panic # "" THEN Panic(r.p, parent, ad.panic)
         ELSE Ret([r.p EXCEPT !.heap = ad.heap], parent, r.err))
    ELSE r))

\* Parser.build
build(p0, parent) ==
    Let(Consume([p0 EXCEPT !.builds = @ + 1], "unit"), LAMBDA c :
    IF c.err # NoErr THEN Ret(c.p, parent, c.err)
    ELSE
    Let(checkEndOrError(c.p, c.t, parent), LAMBDA e :
    IF e.ok THEN Ret(c.p, parent, e.err)
    ELSE IF c.t = tokenBraceOpen THEN buildGroup(c.p, parent)
    ELSE IF c.t = tokenValue THEN buildValue(c.p, c.t, parent)
    ELSE Ret(c.p, parent, NoErr)))

\* Parser.Parse with the cursor of the earlier call kept for the new input
ParserParse_keepsCursor(lex0, in) ==
    [build([lex |-> [lex0 EXCEPT !.input = in], heap |-> <<Expression(TRUE)>>,
            consumed |-> <<>>, builds |-> 0], 1) EXCEPT !.n = 1]

\* Parser.Parse on a parser whose lexer is lex0: the lexer is replaced by a
\* new one on the input; n is the root Expression returned
ParserParse(lex0, in) ==
    [build([lex |-> NewLexer(in), heap |-> <<Expression(TRUE)>>, consumed |-> <<>>,
            builds |-> 0], 1) EXCEPT !.n = 1]

\* &Parser{}: the parser of NewParser, whose lexer is nil
NewParser == NewLexer(<<>>)

\* Parse: Parser.Parse on a new parser
Parse(in) == ParserParse(NewParser, in)

(***************************************************************************)
(* parser.go: String().  The Go methods recurse along the child links; on  *)
(* a tree with a cycle they recurse until the stack is exhausted.  A path  *)
(* of more than Len(heap) nodes repeats a node, so the rendering stops     *)
(* there and yields the element StackOverflow, which is no character.      *)
(***************************************************************************)
StackOverflow == "fatal error: stack overflow"

RECURSIVE String(_, _, _)
String(heap, n, fuel) ==
    IF fuel = 0 THEN <<StackOverflow>>
    ELSE
    CASE heap[n].type = NodeTypeExpression ->
           \* Expression.String ranges over Children(), which holds the nil
           \* child of an empty Expression: v.String() on it is a nil dereference
           <<"(">> \o (IF heap[n].node = 0 THEN <<"panic: nil pointer dereference">>
                       ELSE String(heap, heap[n].node, fuel - 1)) \o <<")">>
      [] heap[n].type = NodeTypeBinary ->
           (IF heap[n].nodes[1] # 0 THEN String(heap, heap[n].nodes[1], fuel - 1) ELSE <<>>)
           \o <<" ">> \o heap[n].operator \o <<" ">>
           \o (IF heap[n].nodes[2] # 0 THEN String(heap, heap[n].nodes[2], fuel - 1) ELSE <<>>)
      [] OTHER ->
           (IF heap[n].prefixWildcard THEN <<"*">> ELSE <<>>) \o heap[n].value
           \o (IF heap[n].suffixWildcard THEN <<"*">> ELSE <<>>)

(***************************************************************************)
(* parser.go: Accept(visitor).  A callback is recorded as the method of    *)
(* NodeVisitor called and the fields of the context handed to it.  On a    *)
(* tree with a cycle Accept recurses as String() does; the program ends    *)
(* there, so no callback follows the element StackOverflowCallback.        *)
(***************************************************************************)
Callback(method) ==
    [method |-> method, text |-> <<>>, pre |-> FALSE, post |-> FALSE, r |-> "",
     unary |-> FALSE]

\* visitor.VisitExpressionEntered()
VisitExpressionEntered == Callback("VisitExpressionEntered")

\* visitor.VisitExpressionLeft()
VisitExpressionLeft == Callback("VisitExpressionLeft")

\* visitor.VisitOperator(OperatorContext{op: ...})
VisitOperator(op) == [Callback("VisitOperator") EXCEPT !.text = op]

\* visitor.VisitComparison(ComparisonContext{comparison: ...})
VisitComparison(comparison) == [Callback("VisitComparison") EXCEPT !.text = comparison]

\* visitor.VisitSelector(SelectorContext{unary: ..., selector: ...})
VisitSelector(unary, selector) ==
    [Callback("VisitSelector") EXCEPT !.text = selector, !.unary = unary]

\* visitor.VisitArgument(ArgumentContext{pre: ..., post: ..., r: ..., val: ...})
VisitArgument(pre, post, r, val) ==
    [Callback("VisitArgument") EXCEPT !.text = val, !.pre = pre, !.post = post, !.r = r]

StackOverflowCallback == Callback(StackOverflow)

\* Node.Accept: the callbacks issued under node n, in order
RECURSIVE Accept(_, _, _)
Accept(heap, n, fuel) ==
    IF fuel = 0 THEN <<StackOverflowCallback>>
    ELSE
    CASE heap[n].type = NodeTypeExpression ->
           <<VisitExpressionEntered>>
           \o (IF heap[n].node # 0 THEN Accept(heap, heap[n].node, fuel - 1) ELSE <<>>)
           \o <<VisitExpressionLeft>>
      [] heap[n].type = NodeTypeBinary ->
           (IF heap[n].nodes[1] # 0 THEN Accept(heap, heap[n].nodes[1], fuel - 1) ELSE <<>>)
           \o <<IF heap[n].operator = <<"A", "N", "D">> \/ heap[n].operator = <<"O", "R">>
                THEN VisitOperator(heap[n].operator)
                ELSE VisitComparison(heap[n].operator)>>
           \o (IF heap[n].nodes[2] # 0 THEN Accept(heap, heap[n].nodes[2], fuel - 1) ELSE <<>>)
      [] OTHER ->
           <<IF heap[n].selector THEN VisitSelector(heap[n].unary, heap[n].value)
             ELSE VisitArgument(heap[n].prefixWildcard, heap[n].suffixWildcard,
                                heap[n].recommended, heap[n].value)>>

\* the callbacks up to the one after which the program has ended
RECURSIVE UntilOverflow(_)
UntilOverflow(cbs) ==
    IF cbs = <<>> THEN <<>>
    ELSE IF Head(cbs) = StackOverflowCallback THEN <<StackOverflowCallback>>
    ELSE <<Head(cbs)>> \o UntilOverflow(Tail(cbs))

(***************************************************************************)
(* duration.go: the ISO 8601 duration converter.  A float64 is modelled by *)
(* the decimal it is written as: the pair of m and e stands for m / 10^e,  *)
(* with e as small as possible.                                            *)
(***************************************************************************)
RECURSIVE Decimal(_, _)
Decimal(m, e) ==
    IF e > 0 /\ m % 10 = 0 THEN Decimal(m \div 10, e - 1) ELSE [m |-> m, e |-> e]

Zero == Decimal(0, 0)

\* the number spelled by the digits ds
RECURSIVE DigitsValue(_)
DigitsValue(ds) ==
    IF ds = <<>> THEN 0
    ELSE 10 * DigitsValue(SubSeq(ds, 1, Len(ds) - 1))
         + (CHOOSE n \in 0..9 :
               <<"0", "1", "2", "3", "4", "5", "6", "7", "8", "9">>[n + 1] = ds[Len(ds)])

\* the error values of the converter; nil is NoDurationErr
DurationErr(kind, got) == [kind |-> kind, got |-> got]
NoDurationErr == DurationErr("nil", <<>>)

\* strconv.ParseFloat(b, 64) for a b of the characters readNr collects: an
\* optional minus sign, then digits with at most one dot and at least one
\* digit; anything else is a syntax error, with the value 0
ParseFloat(b) ==
    LET neg == Len(b) > 0 /\ b[1] = "-"
        body == IF neg THEN Tail(b) ELSE b
        dots == {i \in 1..Len(body) : body[i] = "."}
        ds == SelectSeq(body, LAMBDA c : c # ".")
    IN IF /\ \A i \in 1..Len(body) : body[i] \in Digits \cup {"."}
          /\ Cardinality(dots) <= 1
          /\ Len(ds) > 0
       THEN [val |-> Decimal(IF neg THEN 0 - DigitsValue(ds) ELSE DigitsValue(ds),
                             IF dots = {} THEN 0
                             ELSE Len(body) - (CHOOSE i \in dots : TRUE)),
             err |-> NoDurationErr]
       ELSE [val |-> Zero, err |-> DurationErr("strconv.ParseFloat: invalid syntax", b)]

\* the loop of readNr, with the buffer b; pos counts from 0 as in the source.
\* unicode.IsNumber of a byte is true of the ASCII digits (and of the
\* Latin-1 bytes for the superscripts and fractions, which no input here has)
RECURSIVE readNrLoop(_, _, _)
readNrLoop(input, pos, b) ==
    IF Len(input) > pos /\ input[pos + 1] = "+"
    THEN readNrLoop(input, pos + 1, b)
    ELSE IF Len(input) > pos /\ input[pos + 1] \in {"-", "."} \cup Digits
    THEN readNrLoop(input, pos + 1, Append(b, input[pos + 1]))
    ELSE [pos |-> pos, nr |-> ParseFloat(b).val, err |-> ParseFloat(b).err]

\* readNr
readNr(input, pos) == readNrLoop(input, pos, <<>>)

\* ISO8601Duration{}
ZeroDuration ==
    [Negative |-> FALSE, Years |-> Zero, Months |-> Zero, Weeks |-> Zero, Days |-> Zero,
     Hours |-> Zero, Minutes |-> Zero, Seconds |-> Zero, string |-> <<>>]

durationPeriod == "P"
durationTime == "T"
durationYear == "Y"
durationMonthOrMinute == "M"
durationWeek == "W"
durationDay == "D"
durationHour == "H"
durationSecond == "S"

\* the switch with M as months in time mode too
switchMark_alwaysMonths(d, mark, nr, isTime) ==
    IF mark = durationYear THEN [d |-> [d EXCEPT !.Years = nr], err |-> NoDurationErr]
    ELSE IF mark = durationMonthOrMinute
    THEN [d |-> [d EXCEPT !.Months = nr], err |-> NoDurationErr]
    ELSE IF mark = durationWeek THEN [d |-> [d EXCEPT !.Weeks = nr], err |-> NoDurationErr]
    ELSE IF mark = durationDay THEN [d |-> [d EXCEPT !.Days = nr], err |-> NoDurationErr]
    ELSE IF mark = durationHour THEN [d |-> [d EXCEPT !.Hours = nr], err |-> NoDurationErr]
    ELSE IF mark = durationSecond THEN [d |-> [d EXCEPT !.Seconds = nr], err |-> NoDurationErr]
    ELSE [d |-> d, err |-> DurationErr("unexpected token", <<mark>>)]

\* the switch of tryParseISO8601Duration on the unit marker mark
switchMark(d, mark, nr, isTime) ==
    IF mark = durationYear THEN [d |-> [d EXCEPT !.Years = nr], err |-> NoDurationErr]
    ELSE IF mark = durationMonthOrMinute
    THEN IF isTime THEN [d |-> [d EXCEPT !.Minutes = nr], err |-> NoDurationErr]
         ELSE [d |-> [d EXCEPT !.Months = nr], err |-> NoDurationErr]
    ELSE IF mark = durationWeek THEN [d |-> [d EXCEPT !.Weeks = nr], err |-> NoDurationErr]
    ELSE IF mark = durationDay THEN [d |-> [d EXCEPT !.Days = nr], err |-> NoDurationErr]
    ELSE IF mark = durationHour THEN [d |-> [d EXCEPT !.Hours = nr], err |-> NoDurationErr]
    ELSE IF mark = durationSecond THEN [d |-> [d EXCEPT !.Seconds = nr], err |-> NoDurationErr]
    ELSE [d |-> d, err |-> DurationErr("unexpected token", <<mark>>)]

\* the result of a call that ended in a run-time panic
DurationPanic(msg) == [d |-> ZeroDuration, err |-> NoDurationErr, panic |-> msg]

\* the loop of tryParseISO8601Duration; the read of input[pos] for the
\* marker is out of range when the number ends the input
RECURSIVE durationLoop(_, _, _, _)
durationLoop(input, pos, isTime, d) ==
    IF pos >= Len(input) THEN [d |-> d, err |-> NoDurationErr, panic |-> ""]
    ELSE Let(isTime \/ input[pos + 1] = durationTime, LAMBDA nowTime :
         Let(readNr(input, IF input[pos + 1] = durationTime THEN pos + 1 ELSE pos), LAMBDA r :
         IF r.err # NoDurationErr THEN [d |-> d, err |-> r.err, panic |-> ""]
         ELSE IF r.pos >= Len(input) THEN DurationPanic("index out of range")
         ELSE Let(switchMark(d, input[r.pos + 1], r.nr, nowTime), LAMBDA s :
              IF s.err # NoDurationErr THEN [d |-> d, err |-> s.err, panic |-> ""]
              ELSE durationLoop(input, r.pos + 1, nowTime, s.d))))

\* tryParseISO8601Duration; the read of input[pos] for the P is out of range
\* when the input is only a sign
tryParseISO8601Duration(input) ==
    IF Len(input) = 0 THEN [d |-> ZeroDuration, err |-> NoDurationErr, panic |-> ""]
    ELSE Let([ZeroDuration EXCEPT !.string = input, !.Negative = (input[1] = "-")], LAMBDA d :
         Let(IF input[1] \in {"-", "+"} THEN 1 ELSE 0, LAMBDA pos :
         IF pos >= Len(input) THEN DurationPanic("index out of range")
         ELSE IF input[pos + 1] # durationPeriod
         THEN [d |-> d, err |-> DurationErr("expected P", <<input[pos + 1]>>), panic |-> ""]
         ELSE durationLoop(input, pos + 1, FALSE, d)))

\* 10^n
RECURSIVE Pow10(_)
Pow10(n) == IF n = 0 THEN 1 ELSE 10 * Pow10(n - 1)

\* the largest exponent of the components of d
MaxExponent(d) ==
    LET es == {d.Years.e, d.Months.e, d.Weeks.e, d.Days.e, d.Hours.e, d.Minutes.e,
               d.Seconds.e}
    IN CHOOSE e \in es : \A f \in es : f <= e

\* the float64 x times the whole number k, as a numerator over 10^e
Scaled(x, k, e) == x.m * k * Pow10(e - x.e)

\* the sum AsMilliseconds rounds.  The amounts are kept in thousands of
\* milliseconds, 60000 as 60 and 2629800000 as 2629800, which keeps them
\* within the integers of the model: the sum is n / 10^e thousands
MillisecondSum(i) ==
    Let(MaxExponent(i), LAMBDA e :
    [n |-> Scaled(i.Seconds, 1, e) + Scaled(i.Minutes, 60, e)
           + Scaled(i.Hours, 60 * 60, e) + Scaled(i.Days, 60 * 60 * 24, e)
           + Scaled(i.Weeks, 60 * 60 * 24 * 7, e) + Scaled(i.Months, 2629800, e)
           + Scaled(i.Years, 2629800 * 12, e),
     e |-> e])

\* the absolute value of n
Abs(n) == IF n < 0 THEN 0 - n ELSE n

\* int64(x) truncated, for an x of n / 10^e thousands: the int64 is modelled
\* by its thousands and its units, of the sign of x
Truncated(x) ==
    LET sign == IF x.n < 0 THEN 0 - 1 ELSE 1
        whole == Abs(x.n) \div Pow10(x.e)
        rest == ((Abs(x.n) % Pow10(x.e)) * 1000) \div Pow10(x.e)
    IN [thousands |-> sign * whole, units |-> sign * rest]

\* int64(math.Round(x)): the nearest whole number, halves away from zero
Round(x) ==
    LET sign == IF x.n < 0 THEN 0 - 1 ELSE 1
        whole == Abs(x.n) \div Pow10(x.e)
        rest == ((Abs(x.n) % Pow10(x.e)) * 2000 + Pow10(x.e)) \div (2 * Pow10(x.e))
    IN IF rest = 1000 THEN [thousands |-> sign * (whole + 1), units |-> 0]
       ELSE [thousands |-> sign * whole, units |-> sign * rest]

\* AsMilliseconds without the rounding
AsMilliseconds_truncated(i) == Truncated(MillisecondSum(i))

\* AsMilliseconds
AsMilliseconds(i) == Round(MillisecondSum(i))

\* AsSeconds: AsMilliseconds() / 1000, the division of int64 truncates, and
\* the units of the int64 have the sign of its thousands
AsSeconds(i) == AsMilliseconds(i).thousands

(***************************************************************************)
(* The inputs: every concatenation of at most MaxPieces lexemes, every      *)
(* concatenation of at most MaxGroupPieces lexemes of the grouping subset, *)
(* every chain of at most MaxUnits units joined by `;` or `,`, every        *)
(* string of at most MaxComparatorPieces of the characters comparators are *)
(* read from, and every literal of at most MaxLiteralPieces characters,    *)
(* escapes and delimiters among them, alone and as the argument of `a==`;  *)
(* and, for the classification of arguments, every comparator followed by  *)
(* every string of at most MaxArgumentChars of the characters numbers and  *)
(* durations are made of and by each of a list of longer literals, and     *)
(* every pair of comparisons with `==`, `!=` or `=q=` of one such literal. *)
(***************************************************************************)
Pieces ==
    {<<"a">>, <<"1">>, <<"=", "=">>, <<"=", "g", "t", "=">>, <<";">>, <<",">>,
     <<"(">>, <<")">>, <<"*">>, <<" ">>, <<"\n">>}

GroupPieces == {<<"a">>, <<";">>, <<"(">>, <<")">>}

ChainUnits ==
    {<<"a">>, <<"b", "=", "=", "c">>, <<"d", "!", "=", "*", "e", "*">>,
     <<"f", "=", "g", "t", "=", "2">>, <<"(", "g", ")">>,
     <<"(", "h", "=", "=", "i", ";", "j", ")">>, <<"(", "(", "k", ")", ")">>,
     <<"m", "=", "=", "n", "\\", ",", "o">>}

ComparatorPieces == {<<"a">>, <<"=">>, <<"!">>, <<"g">>, <<"\n">>}

LiteralPieces ==
    {<<"a">>, <<"\\">>, <<";">>, <<",">>, <<"!">>, <<"=">>, <<")">>, <<"*">>}

LiteralPrefixes == {<<>>, <<"a", "=", "=">>}

Comparators ==
    {<<"=", "=">>, <<"!", "=">>, <<"=", "g", "t", "=">>, <<"=", "g", "e", "=">>,
     <<"=", "l", "t", "=">>, <<"=", "l", "e", "=">>, <<"=", "i", "n", "=">>,
     <<"=", "q", "=">>}

DefaultComparators == {<<"=", "=">>, <<"!", "=">>, <<"=", "q", "=">>}

ArgumentChars == {<<"1">>, <<".">>, <<"-">>, <<"P">>, <<"T">>, <<"M">>, <<"a">>}

LongArguments ==
    {<<"2", "0", "0", "3", "-", "1", "2", "-", "1", "3", "T", "1", "8", ":", "3", "0", ":",
       "0", "2", "Z">>,
     <<"2", "0", "0", "3", "-", "1", "2", "-", "3", "1", "T", "1", "8", ":", "3", "0", ":",
       "0", "2", "+", "0", "1", ":", "0", "0">>,
     <<"2", "0", "0", "4", "-", "0", "2", "-", "2", "9", "T", "0", "0", ":", "0", "0", ":",
       "0", "0", ".", "5", "Z">>,
     <<"2", "0", "0", "3", "-", "0", "2", "-", "2", "9", "T", "0", "0", ":", "0", "0", ":",
       "0", "0", "Z">>,
     <<"2", "0", "0", "3", "-", "1", "3", "-", "1", "3", "T", "1", "8", ":", "3", "0", ":",
       "0", "2", "Z">>,
     <<"2", "0", "0", "3", "-", "1", "2", "-", "1", "3", "T", "1", "8", ":", "3", "0", ":",
       "0", "2">>,
     <<"2", "0", "0", "3", "-", "1", "2", "-", "1", "3">>,
     <<"P", "3", "D", "T", "4", "H", "5", "9", "M">>,
     <<"P", "1", "Y", "2", "M", "3", "W", "4", "D", "T", "5", "H", "6", "M", "7", "S">>,
     <<"-", "P", "1", ".", "5", "D">>,
     <<"P", "1", "D", "1", "2">>,
     <<"P", "1", "H">>,
     <<"+", "1", "2", ".", "5">>,
     <<"1", "2", "3">>,
     <<"1", ".", "2", ".", "3">>,
     <<"i", "n", "v", "a", "l", "i", "d">>,
     <<"[", "a", "+", "b", "+", "c", "]">>,
     <<"[", "1", "]">>}

ChainOps == {<<";">>, <<",">>}

RECURSIVE Flatten(_)
Flatten(ps) == IF ps = <<>> THEN <<>> ELSE Head(ps) \o Flatten(Tail(ps))

SeqsUpTo(S, n) == UNION {[1..k -> S] : k \in 0..n}

\* u1 op1 u2 ... un for 1 <= n <= k
RECURSIVE Chains(_)
Chains(k) ==
    IF k = 1 THEN ChainUnits
    ELSE ChainUnits \cup {u \o o \o c : u \in ChainUnits, o \in ChainOps, c \in Chains(k - 1)}

\* a group between two logic operators: a==b;(c==d);e==f
GroupBetweenOperators ==
    <<"a", "=", "=", "b", ";", "(", "c", "=", "=", "d", ")", ";", "e", "=", "=", "f">>

Arguments ==
    {Flatten(ps) : ps \in SeqsUpTo(ArgumentChars, MaxArgumentChars)} \cup LongArguments

Inputs ==
    {Flatten(ps) : ps \in SeqsUpTo(Pieces, MaxPieces)}
    \cup {Flatten(ps) : ps \in SeqsUpTo(GroupPieces, MaxGroupPieces)}
    \cup Chains(MaxUnits)
    \cup {Flatten(ps) : ps \in SeqsUpTo(ComparatorPieces, MaxComparatorPieces)}
    \cup {pre \o Flatten(ps) : pre \in LiteralPrefixes,
                              ps \in SeqsUpTo(LiteralPieces, MaxLiteralPieces)}
    \cup {<<"a">> \o c \o v : c \in Comparators, v \in Arguments}
    \cup {<<"a">> \o c \o v \o <<";", "b">> \o d \o v :
              c \in DefaultComparators, d \in DefaultComparators, v \in LongArguments}
    \cup {GroupBetweenOperators}

\* the value of returned before the first call on the lexer
NotCalled ==
    [op |-> "none", t |-> tokenEOF, val |-> <<>>, err |-> NoErr, before |-> NewLexer(<<>>),
     earlier |-> [op |-> "none", t |-> tokenEOF, err |-> NoErr]]

LexPieces ==
    {<<"a">>, <<"=">>, <<"!">>, <<"g">>, <<"=", "g">>, <<"t", "=">>, <<"G">>, <<";">>,
     <<"\\", "*">>, <<" ">>, <<"\n">>}

\* the spellings of the letters of a comparator in lower and in upper case
RECURSIVE Spellings(_)
Spellings(c) ==
    IF c = <<>> THEN {<<>>}
    ELSE {<<r>> \o rest :
             r \in {Head(c)} \cup {u \in {"G", "L", "T", "E", "Q", "I", "N"} :
                                       ToLowerRune(u) = Head(c)},
             rest \in Spellings(Tail(c))}

\* texts that end in = and are no comparator, and the example title=ffoo*
OtherLexInputs ==
    {<<"=", "g", "g", "=">>, <<"!", "g", "t", "=">>, <<"=", "q", "e", "=">>,
     <<"a", "=", "g", "g", "=", "b">>, <<"a", "!", "g", "t", "=", "b">>,
     <<"a", "=", "q", "e", "=", "b">>,
     <<"t", "i", "t", "l", "e", "=", "f", "f", "o", "o", "*">>,
     <<"a", "=", "i", "n">>, <<"a", "\n", "b", "=", "l">>}

\* the inputs of the lexer: every concatenation of at most MaxLexPieces
\* pieces, every comparator in every spelling, alone and between two values,
\* and the inputs of OtherLexInputs
LexInputs ==
    {Flatten(ps) : ps \in SeqsUpTo(LexPieces, MaxLexPieces)}
    \cup UNION {{sp, <<"a">> \o sp \o <<"b">>} : sp \in UNION {Spellings(c) : c \in Comparators}}
    \cup OtherLexInputs

\* the inputs of the first call on a parser that is used again
FirstInputs == {Flatten(ps) : ps \in SeqsUpTo(Pieces, MaxFirstPieces)}

\* the inputs of the later calls on the parser: the two inputs of
\* TestHandling, inputs with an error on the first and on the second line,
\* the empty input, a nested group and an input on which Parse panics
LaterInputs ==
    {<<"a", "=", "=", "b", ";", "c", "=", "=", "d", ",", "f", "=", "=", "g">>,
     <<"(", "a", "=", "=", "b", ";", "c", "=", "=", "d", ")", ",", "f", "=", "=", "g">>,
     <<"a", "=", "g">>,
     <<"a", "=", "=", "b", ";", "\n", "c", "=", "f">>,
     <<"a", "\n", "=", "=", "*", "b", "*">>,
     <<>>,
     <<"(", "(", "a", "=", "=", "b", ")", ")">>,
     <<"a", ";", "(", "b", ")", ";", "c">>}

\* the value of measured before the calls
NotMeasured == [ms |-> [thousands |-> 0, units |-> 0], s |-> 0]

\* the value of converted before the call
NotConverted == DurationPanic("not called")

DurationChars == {<<"-">>, <<"+">>, <<"P">>, <<"T">>, <<"1">>, <<".">>, <<"M">>, <<"D">>}

DurationSigns == {<<>>, <<"-">>}

DurationItems ==
    {<<"P">>, <<"T">>, <<"1", "Y">>, <<"2", "M">>, <<"3", "W">>, <<"4", "D">>, <<"5", "H">>,
     <<"0", ".", "5", "S">>, <<"X">>}

LongDurations ==
    {<<"P", "1", "Y", "1", "M", "1", "D", "T", "1", "H", "1", "M", "1", ".", "1", "S">>,
     <<"-", "P", "1", "Y", "1", "M", "1", "D", "T", "1", "H", "1", "M", "1", ".", "1", "S">>,
     <<"+", "P", "1", "Y", "1", "M", "1", "D", "T", "1", "H", "1", "M", "1", ".", "1", "S">>,
     <<"P", "4", "0", "D">>,
     <<"P", "3", "D", "T", "4", "H", "5", "9", "M">>,
     <<"P", "T", "2", "H", "3", "0", "M">>,
     <<"P", "T", "0", ".", "0", "0", "2", "1", "S">>,
     <<"P", "T", "0", ".", "0", "0", "2", "6", "S">>,
     <<"P", "T", "0", ".", "0", "0", "4", "S">>,
     <<"-", "P", "T", "1", ".", "9", "9", "9", "6", "S">>,
     <<"P", "1", "W">>,
     <<"P", "2", "W">>,
     <<"P", "T", "0", "S">>,
     <<"P", "0", "D">>,
     <<"P", "1", "M", "T", "1", "M", "T", "2", "M">>,
     <<"-", "P", "2", "M", "T", "5", "9", "M">>,
     <<"P", "1", "D", "2", "D">>,
     <<"P", "-", "1", ".", "5", "0", "D">>,
     <<"P", "1", "X">>,
     <<"-", "P", "2", "5", "Q">>,
     <<"+", "1", "Y", "1", "D">>,
     <<"1", "Y", "1", "D">>}

\* the literals handed to the duration converter: every string of at most
\* MaxDurationChars of the characters durations are made of, every optional
\* minus sign followed by at most MaxDurationItems components and markers,
\* and a list of longer literals
DurationLiterals ==
    {Flatten(ps) : ps \in SeqsUpTo(DurationChars, MaxDurationChars)}
    \cup {sign \o Flatten(ps) : sign \in DurationSigns,
                                ps \in SeqsUpTo(DurationItems, MaxDurationItems)}
    \cup LongDurations

(***************************************************************************)
(* The state machine: one call of Parse on the input, then String() or     *)
(* Accept(visitor) on the tree it returned.                                *)
(***************************************************************************)
VARIABLES
    input,      \* the string handed to Parse
    pc,         \* "start", "parsed" (Parse has returned or panicked), "rendered",
                \* "accepted"
    lex,        \* the lexer cursor of the Parser
    heap,       \* the nodes allocated by Parse; heap[1] is the root Expression
    err,        \* the error Parse returned, NoErr for nil
    panicked,   \* the panic that ended Parse, "" when it returned
    consumed,   \* history: the ConsumeToken calls of the parser
    builds,     \* history: the number of calls of build
    rendered,   \* the result of String() on the returned root
    visited,    \* the callbacks Accept issued on the returned root
    converted,  \* the result of tryParseISO8601Duration on the literal
    measured,   \* the results of AsMilliseconds and AsSeconds on the duration
    returned    \* the last call on the lexer, what it returned, the cursor
                \* before it, and the call before it

vars ==
    <<input, pc, lex, heap, err, panicked, consumed, builds, rendered, visited, converted,
      measured, returned>>

Init ==
    /\ input \in Inputs
    /\ pc = "start"
    /\ lex = NewParser
    /\ heap = <<>>
    /\ err = NoErr
    /\ panicked = ""
    /\ consumed = <<>>
    /\ builds = 0
    /\ rendered = <<>>
    /\ visited = <<>>
    /\ converted = NotConverted
    /\ measured = NotMeasured
    /\ returned = NotCalled

\* Parse(input)
DoParse ==
    /\ pc = "start"
    /\ LET r == Parse(input) IN
       /\ lex' = r.p.lex
       /\ heap' = r.p.heap
       /\ err' = r.err
       /\ panicked' = r.panic
       /\ consumed' = r.p.consumed
       /\ builds' = r.p.builds
    /\ pc' = "parsed"
    /\ UNCHANGED <<input, rendered, visited, converted, measured, returned>>

\* res.String() on the result of a successful Parse
DoString ==
    /\ pc = "parsed"
    /\ err = NoErr
    /\ panicked = ""
    /\ rendered' = String(heap, 1, Len(heap))
    /\ pc' = "rendered"
    /\ UNCHANGED <<input, lex, heap, err, panicked, consumed, builds, visited, converted,
                   measured, returned>>

\* res.Accept(visitor) on the result of a successful Parse
DoAccept ==
    /\ pc = "parsed"
    /\ err = NoErr
    /\ panicked = ""
    /\ visited' = UntilOverflow(Accept(heap, 1, Len(heap)))
    /\ pc' = "accepted"
    /\ UNCHANGED <<input, lex, heap, err, panicked, consumed, builds, rendered, converted,
                   measured, returned>>

Next == DoParse \/ DoString \/ DoAccept

Spec == Init /\ [][Next]_vars

(***************************************************************************)
(* The state machine of the lexer: a lexer on the input, as Parser.Parse   *)
(* makes it, then calls of ConsumeToken and PeekNextToken in any order.    *)
(***************************************************************************)
LexInit ==
    /\ input \in LexInputs
    /\ pc = "lexing"
    /\ lex = NewLexer(input)
    /\ heap = <<>>
    /\ err = NoErr
    /\ panicked = ""
    /\ consumed = <<>>
    /\ builds = 0
    /\ rendered = <<>>
    /\ visited = <<>>
    /\ converted = NotConverted
    /\ measured = NotMeasured
    /\ returned = NotCalled

\* what is kept of the call before the last one
Earlier == [op |-> returned.op, t |-> returned.t, err |-> returned.err]

\* t, err := p.lex.ConsumeToken()
DoConsumeToken ==
    /\ pc = "lexing"
    /\ LET c == ConsumeToken(lex) IN
       /\ lex' = c.lex
       /\ returned' = [op |-> "ConsumeToken", t |-> c.t, val |-> <<>>, err |-> c.err,
                       before |-> lex, earlier |-> Earlier]
    /\ UNCHANGED <<input, pc, heap, err, panicked, consumed, builds, rendered, visited,
                   converted, measured>>

\* t, val, err := p.lex.PeekNextToken()
DoPeekNextToken ==
    /\ pc = "lexing"
    /\ LET c == PeekNextToken(lex) IN
       /\ lex' = c.lex
       /\ returned' = [op |-> "PeekNextToken", t |-> c.t, val |-> c.val, err |-> c.err,
                       before |-> lex, earlier |-> Earlier]
    /\ UNCHANGED <<input, pc, heap, err, panicked, consumed, builds, rendered, visited,
                   converted, measured>>

LexNext == DoConsumeToken \/ DoPeekNextToken

LexSpec == LexInit /\ [][LexNext]_vars

(***************************************************************************)
(* The state machine of a reused Parser: Parse on a new parser, then any   *)
(* number of calls of Parse on the same parser, each on an input of        *)
(* LaterInputs.                                                            *)
(***************************************************************************)
ReuseInit ==
    /\ input \in FirstInputs
    /\ pc = "start"
    /\ lex = NewParser
    /\ heap = <<>>
    /\ err = NoErr
    /\ panicked = ""
    /\ consumed = <<>>
    /\ builds = 0
    /\ rendered = <<>>
    /\ visited = <<>>
    /\ converted = NotConverted
    /\ measured = NotMeasured
    /\ returned = NotCalled

\* p.Parse(x) on the parser of the earlier calls; a caller that recovered
\* from the panic of a call can go on with the parser as well
DoParseAgain ==
    /\ pc \in {"parsed", "parsed again"}
    /\ \E x \in LaterInputs :
          /\ input' = x
          /\ LET r == ParserParse(lex, x) IN
             /\ lex' = r.p.lex
             /\ heap' = r.p.heap
             /\ err' = r.err
             /\ panicked' = r.panic
             /\ consumed' = r.p.consumed
             /\ builds' = r.p.builds
    /\ pc' = "parsed again"
    /\ UNCHANGED <<rendered, visited, converted, measured, returned>>

ReuseNext == DoParse \/ DoParseAgain

ReuseSpec == ReuseInit /\ [][ReuseNext]_vars

(***************************************************************************)
(* The state machine of the duration converter: one call of                *)
(* tryParseISO8601Duration on a literal, as AsDuration makes it, then      *)
(* AsMilliseconds and AsSeconds on the duration it returned.               *)
(***************************************************************************)
DurationInit ==
    /\ input \in DurationLiterals
    /\ pc = "literal"
    /\ lex = NewParser
    /\ heap = <<>>
    /\ err = NoErr
    /\ panicked = ""
    /\ consumed = <<>>
    /\ builds = 0
    /\ rendered = <<>>
    /\ visited = <<>>
    /\ converted = NotConverted
    /\ measured = NotMeasured
    /\ returned = NotCalled

\* durationConverter.tryParseISO8601Duration(input)
DoTryParse ==
    /\ pc = "literal"
    /\ converted' = tryParseISO8601Duration(input)
    /\ pc' = "converted"
    /\ UNCHANGED <<input, lex, heap, err, panicked, consumed, builds, rendered, visited,
                   measured, returned>>

\* d.AsMilliseconds() and d.AsSeconds() on the duration the converter returned
DoAsMilliseconds ==
    /\ pc = "converted"
    /\ converted.panic = ""
    /\ measured' = [ms |-> AsMilliseconds(converted.d), s |-> AsSeconds(converted.d)]
    /\ pc' = "measured"
    /\ UNCHANGED <<input, lex, heap, err, panicked, consumed, builds, rendered, visited,
                   converted, returned>>

DurationNext == DoTryParse \/ DoAsMilliseconds

DurationSpec == DurationInit /\ [][DurationNext]_vars

(***************************************************************************)
(* Notions the properties are stated with.                                 *)
(***************************************************************************)
\* Parse has returned or panicked
Parsed == pc # "start"

\* Parse has returned a tree and no error
Success == Parsed /\ err = NoErr /\ panicked = ""

\* the last ConsumeToken call of the parser
LastConsumed == consumed[Len(consumed)]

\* the tokens of the text under cursor l, up to end of input or up to the
\* first lexical error
RECURSIVE TokensFrom(_)
TokensFrom(l) ==
    LET c == ConsumeToken(l) IN
    IF c.err # NoErr \/ c.t = tokenEOF THEN <<>>
    ELSE <<[t |-> c.t, val |-> IF c.t = tokenValue THEN c.lex.currentVal ELSE <<>>]>>
         \o TokensFrom(c.lex)

Tokens(in) == TokensFrom(NewLexer(in))

\* the text under cursor l is tokenized without a lexical error
RECURSIVE LexesFrom(_)
LexesFrom(l) ==
    LET c == ConsumeToken(l) IN
    IF c.err # NoErr THEN FALSE ELSE IF c.t = tokenEOF THEN TRUE ELSE LexesFrom(c.lex)

Lexes(in) == LexesFrom(NewLexer(in))

\* line and column of the cursor after k characters of in
LineAt(in, k) == 1 + Cardinality({i \in 1..k : in[i] = "\n"})

ColAt(in, k) ==
    LET nl == {i \in 1..k : in[i] = "\n"} IN
    IF nl = {} THEN k ELSE k - (CHOOSE m \in nl : \A i \in nl : i <= m)

\* e is the error of the given kind positioned after k characters of the input
IsErrorAt(e, kind, k) ==
    /\ e.kind = kind
    /\ e.hasPos
    /\ e.ln = LineAt(input, k)
    /\ e.col = ColAt(input, k)

\* trees as values: kind, text, flags, children
ConstTree(value, selector, pre, suf, unary) ==
    <<"Const", value, <<selector, pre, suf, unary>>, <<>>>>

BinaryTree(operator, l, r) == <<"Binary", operator, <<>>, <<l, r>>>>

ExprTree(children) == <<"Expr", <<>>, <<>>, children>>

NilTree == <<"nil", <<>>, <<>>, <<>>>>

CyclicTree == <<"cycle", <<>>, <<>>, <<>>>>

\* the tree under node n of the heap; a path of more than Len(heap) nodes
\* repeats a node and is cut with CyclicTree
RECURSIVE Tree(_, _, _)
Tree(h, n, fuel) ==
    IF n = 0 THEN NilTree
    ELSE IF fuel = 0 THEN CyclicTree
    ELSE
    CASE h[n].type = NodeTypeExpression ->
           ExprTree(IF h[n].node = 0 THEN <<>> ELSE <<Tree(h, h[n].node, fuel - 1)>>)
      [] h[n].type = NodeTypeBinary ->
           BinaryTree(h[n].operator, Tree(h, h[n].nodes[1], fuel - 1),
                      Tree(h, h[n].nodes[2], fuel - 1))
      [] OTHER ->
           ConstTree(h[n].value, h[n].selector, h[n].prefixWildcard, h[n].suffixWildcard,
                     h[n].unary)

\* the tree Parse returned
ResultTree == Tree(heap, 1, Len(heap))

\* the non-nil children of node n
ChildSet(h, n) ==
    CASE h[n].type = NodeTypeExpression -> {h[n].node} \ {0}
      [] h[n].type = NodeTypeBinary -> {h[n].nodes[1], h[n].nodes[2]} \ {0}
      [] OTHER -> {}

\* the nodes reachable from the nodes of S through child links
RECURSIVE ReachFrom(_, _)
ReachFrom(h, S) ==
    LET N == S \cup UNION {ChildSet(h, n) : n \in S} IN
    IF N = S THEN S ELSE ReachFrom(h, N)

\* the nodes of the tree under the root
TreeNodes(h) == ReachFrom(h, {1})

\* the number of child links from nodes of the tree to node c
ParentLinks(h, c) ==
    LET T == TreeNodes(h) IN
    Cardinality({n \in T : h[n].type = NodeTypeExpression /\ h[n].node = c})
    + Cardinality({n \in T : h[n].type = NodeTypeBinary /\ h[n].nodes[1] = c})
    + Cardinality({n \in T : h[n].type = NodeTypeBinary /\ h[n].nodes[2] = c})

\* the grammar of the language as a reference: a document is a unit, or a
\* unit, a logic operator and a document; a unit is a parenthesized
\* document, a comparison or a bare selector
RefFail == [ok |-> FALSE, tree |-> NilTree, next |-> 0]

RefArgument(toks, i, cmp) ==
    LET pre == i <= Len(toks) /\ toks[i].t = tokenWildcard
        j == IF pre THEN i + 1 ELSE i
    IN
    IF j > Len(toks) THEN RefFail
    ELSE IF toks[j].t # tokenValue THEN RefFail
    ELSE IF ~validatorFor(cmp, toks[j].val).ok THEN RefFail
    ELSE LET suf == j + 1 <= Len(toks) /\ toks[j + 1].t = tokenWildcard IN
         [ok |-> TRUE, tree |-> ConstTree(toks[j].val, FALSE, pre, suf, FALSE),
          next |-> IF suf THEN j + 2 ELSE j + 1]

RECURSIVE RefDocument(_, _)
RefUnit(toks, i) ==
    IF i > Len(toks) THEN RefFail
    ELSE IF toks[i].t = tokenBraceOpen
    THEN LET d == RefDocument(toks, i + 1) IN
         IF ~d.ok THEN RefFail
         ELSE IF d.next > Len(toks) THEN RefFail
         ELSE IF toks[d.next].t # tokenBraceClose THEN RefFail
         ELSE [ok |-> TRUE, tree |-> ExprTree(<<d.tree>>), next |-> d.next + 1]
    ELSE IF toks[i].t # tokenValue THEN RefFail
    ELSE IF i + 1 <= Len(toks) /\ isCompareToken(toks[i + 1].t)
    THEN LET a == RefArgument(toks, i + 2, toks[i + 1].t) IN
         IF ~a.ok THEN RefFail
         ELSE [ok |-> TRUE,
               tree |-> BinaryTree(tokenTypeString(toks[i + 1].t),
                                   ConstTree(toks[i].val, TRUE, FALSE, FALSE, FALSE), a.tree),
               next |-> a.next]
    ELSE [ok |-> TRUE, tree |-> ConstTree(toks[i].val, TRUE, FALSE, FALSE, TRUE),
          next |-> i + 1]

RefDocument(toks, i) ==
    LET u == RefUnit(toks, i) IN
    IF ~u.ok THEN RefFail
    ELSE IF u.next <= Len(toks) /\ isLogicToken(toks[u.next].t)
    THEN LET r == RefDocument(toks, u.next + 1) IN
         IF ~r.ok THEN RefFail
         ELSE [ok |-> TRUE,
               tree |-> BinaryTree(tokenTypeString(toks[u.next].t), u.tree, r.tree),
               next |-> r.next]
    ELSE u

\* toks is a complete document
IsDocument(toks) ==
    LET d == RefDocument(toks, 1) IN d.ok /\ d.next = Len(toks) + 1

\* the tree of the complete document toks, under the root Expression
RefTree(toks) == ExprTree(<<RefDocument(toks, 1).tree>>)

\* the number of logic tokens of toks
LogicCount(toks) == Cardinality({i \in 1..Len(toks) : isLogicToken(toks[i].t)})

\* the nesting depth of braces after the first k tokens
RECURSIVE Depth(_, _)
Depth(toks, k) ==
    IF k = 0 THEN 0
    ELSE Depth(toks, k - 1)
         + (IF toks[k].t = tokenBraceOpen THEN 1
            ELSE IF toks[k].t = tokenBraceClose THEN 0 - 1 ELSE 0)

\* the indices of the closing braces of toks that have no matching open brace
StrayCloses(toks) ==
    {k \in 1..Len(toks) : toks[k].t = tokenBraceClose /\ Depth(toks, k) < 0
                          /\ \A j \in 1..(k - 1) : Depth(toks, j) >= 0}

\* toks has an open brace that is never closed
HasUnclosedBrace(toks) ==
    \E k \in 1..Len(toks) :
        /\ toks[k].t = tokenBraceOpen
        /\ \A j \in k..Len(toks) : Depth(toks, j) >= Depth(toks, k)

(***************************************************************************)
(* Properties                                                              *)
(***************************************************************************)
\* the input is a chain of at least two ungrouped units
IsUngroupedChain(toks) ==
    /\ IsDocument(toks)
    /\ LogicCount(toks) >= 1
    /\ \A i \in 1..Len(toks) : toks[i].t \notin {tokenBraceOpen, tokenBraceClose}

HasGroupThenLogic(toks) ==
    \E k \in 1..(Len(toks) - 1) :
        toks[k].t = tokenBraceClose /\ isLogicToken(toks[k + 1].t)

\* C2: an input that is a complete document in which a group is followed by
\* a logic operator is parsed into the tree of the grammar: the group is the
\* left operand of the Binary of that operator and the remainder its right
\* operand, wherever the group stands.
C2_GroupChains ==
    (Parsed /\ Lexes(input) /\ IsDocument(Tokens(input)) /\ HasGroupThenLogic(Tokens(input)))
        => (Success /\ ResultTree = RefTree(Tokens(input)))

\* C3: the tree of a successful Parse is a strict tree: no node is reachable
\* from itself through child links and no node has two parents.
C3_StrictTree ==
    Success =>
        /\ \A n \in TreeNodes(heap) : n \notin ReachFrom(heap, ChildSet(heap, n))
        /\ \A n \in TreeNodes(heap) : ParentLinks(heap, n) <= 1

\* C4: after a successful Parse every Binary node of the tree has two non-nil
\* children, every Expression node at most one child and every Constant node
\* none.
C4_NodeArity ==
    Success =>
        \A n \in TreeNodes(heap) :
            /\ heap[n].type = NodeTypeBinary =>
                   /\ heap[n].nodes[1] # 0
                   /\ heap[n].nodes[2] # 0
                   /\ Len(Children(heap, n)) = 2
            /\ heap[n].type = NodeTypeExpression => Len(Children(heap, n)) <= 1
            /\ heap[n].type = NodeTypeConstant => Children(heap, n) = <<>>

\* a successful Parse has returned a tree with a logic Binary over a
\* comparison Binary
C4_Witness ==
    /\ Success
    /\ \E n \in TreeNodes(heap) :
           /\ heap[n].type = NodeTypeBinary
           /\ heap[n].operator = <<"O", "R">>
           /\ heap[heap[n].nodes[1]].type = NodeTypeBinary
           /\ heap[heap[n].nodes[2]].type = NodeTypeConstant

\* the text of a token sequence as String() is to render it: a value by its
\* literal, a wildcard and a brace by its character, a comparator and a logic
\* operator by its name between two spaces
RECURSIVE RenderTokens(_)
RenderTokens(toks) ==
    IF toks = <<>> THEN <<>>
    ELSE LET k == Head(toks) IN
         (IF k.t = tokenValue THEN k.val
          ELSE IF isCompareToken(k.t) \/ isLogicToken(k.t)
               THEN <<" ">> \o tokenTypeString(k.t) \o <<" ">>
          ELSE tokenTypeString(k.t))
         \o RenderTokens(Tail(toks))

\* C5: String() of the root of a successfully parsed input is the rendering
\* of the token sequence of the input, wrapped in the braces of the document
\* root; it therefore does not depend on the whitespace between tokens.
C5_StringOfTokens ==
    pc = "rendered" => rendered = <<"(">> \o RenderTokens(Tokens(input)) \o <<")">>

\* C6: an input in which a complete document, or nothing, is followed by a
\* closing brace that has no matching open brace fails with the invalid
\* closing brace error.
C6_StrayClosingBrace ==
    LET toks == Tokens(input) IN
    (Parsed /\ Lexes(input)
       /\ \E k \in StrayCloses(toks) : k = 1 \/ IsDocument(SubSeq(toks, 1, k - 1)))
        => (panicked = "" /\ err.kind = "invalid closing brace")

\* C7 as stated: every input with an open brace that is never closed fails
\* with the unclosed brace error.
C7_EveryUnclosedBrace ==
    (Parsed /\ Lexes(input) /\ HasUnclosedBrace(Tokens(input)))
        => (panicked = "" /\ err.kind = "unclosed brace")

\* C7: when the parser has read the content of a group without error and the
\* token it then reads where the closing brace is expected is not a closing
\* brace, Parse fails with the unclosed brace error at the position the
\* lexer reached by reading that token.
C7_UnclosedBrace ==
    (Parsed /\ consumed # <<>> /\ LastConsumed.site = "close" /\ ~LastConsumed.failed
       /\ LastConsumed.t # tokenBraceClose)
        => (panicked = "" /\ IsErrorAt(err, "unclosed brace", LastConsumed.to))

\* the closing brace of a group was expected on the second line of the
\* input and end of input was read
C7_Witness ==
    /\ Parsed
    /\ consumed # <<>>
    /\ LastConsumed.site = "close"
    /\ LastConsumed.t = tokenEOF
    /\ err.kind = "unclosed brace"
    /\ err.ln = 2

\* C8: a logic operator read where a unit is expected (at the start of the
\* document or of a group, or right after another logic operator) fails with
\* dangling operator at the position after it, and end of input read right
\* after a logic operator fails with dangling operator at the end of input.
C8_DanglingOperator ==
    (Parsed /\ consumed # <<>> /\ ~LastConsumed.failed
       /\ \/ LastConsumed.site = "unit" /\ isLogicToken(LastConsumed.t)
          \/ /\ LastConsumed.t = tokenEOF
             /\ Len(consumed) >= 2
             /\ isLogicToken(consumed[Len(consumed) - 1].t)
             /\ consumed[Len(consumed) - 1].site = "logic")
        => (panicked = "" /\ IsErrorAt(err, "dangling operator", LastConsumed.to))

\* end of input was read right after the logic operator that follows a
\* comparison
C8_Witness ==
    /\ Parsed
    /\ Len(consumed) >= 3
    /\ LastConsumed.t = tokenEOF
    /\ LastConsumed.to = Len(input)
    /\ isLogicToken(consumed[Len(consumed) - 1].t)
    /\ consumed[Len(consumed) - 2].site = "argument"
    /\ err.kind = "dangling operator"

\* the comparator of the comparison the parser read last
LastComparator ==
    LET ks == {k \in 1..Len(consumed) : consumed[k].site = "comparator"}
    IN consumed[CHOOSE m \in ks : \A k \in ks : k <= m].t

\* the parser has just completed a comparison: it read the argument value,
\* the validator of the comparator accepted it, and the suffix wildcard, if
\* there is one, was read too
ComparisonCompleted ==
    /\ consumed # <<>>
    /\ ~LastConsumed.failed
    /\ \/ /\ LastConsumed.site = "argument"
          /\ LastConsumed.t = tokenValue
          /\ validatorFor(LastComparator, LastConsumed.val).ok
       \/ LastConsumed.site = "suffix"

\* C9: a comparator read where a unit is expected fails with dangling
\* comparator at the position after it; a comparator that follows a
\* completed comparison fails with dangling comparator at the position before
\* the lookahead; end of input where the argument of a comparator is expected
\* fails with the syntax error got `eof` but expected a value.
C9_DanglingComparator ==
    /\ (Parsed /\ consumed # <<>> /\ ~LastConsumed.failed
          /\ LastConsumed.site = "unit" /\ isCompareToken(LastConsumed.t))
           => (panicked = "" /\ IsErrorAt(err, "dangling comparator", LastConsumed.to))
    /\ (Parsed /\ ComparisonCompleted
          /\ PeekNextToken(lex).err = NoErr /\ isCompareToken(PeekNextToken(lex).t))
           => (panicked = "" /\ IsErrorAt(err, "dangling comparator", LastConsumed.to))
    /\ (Parsed /\ consumed # <<>> /\ ~LastConsumed.failed
          /\ LastConsumed.site = "argument" /\ LastConsumed.t = tokenEOF)
           => /\ panicked = ""
              /\ IsErrorAt(err, "syntax error", LastConsumed.to)
              /\ err.got = <<"e", "o", "f">>
              /\ err.hint = "a value"

\* a comparator follows a completed comparison, whose argument value is the
\* token read last, and Parse failed with dangling comparator
C9_Witness ==
    /\ Parsed
    /\ ComparisonCompleted
    /\ LastConsumed.site = "argument"
    /\ isCompareToken(PeekNextToken(lex).t)
    /\ err.kind = "dangling comparator"

\* C10: when Parse returns no error the lexer is at end of input: only
\* whitespace remains after the cursor.
C10_WholeInputConsumed ==
    Success => \A i \in (lex.pos + 1)..Len(input) : IsSpace(input[i])

\* C11: every error Parse returns carries a position, of line at least 1
\* and column at least 1.
C11_ErrorHasPosition ==
    (Parsed /\ panicked = "" /\ err # NoErr)
        => (err.hasPos /\ err.ln >= 1 /\ err.col >= 1)

\* the tokens that start a unit: a value and an opening brace
StartsUnit(t) == t = tokenValue \/ t = tokenBraceOpen

\* C12: when the token read where a unit is expected is a wildcard, a
\* comparator, a logic operator or a closing brace, Parse fails with an error.
C12_NoUnitStartFails ==
    Parsed =>
        \A k \in 1..Len(consumed) :
            (/\ consumed[k].site = "unit"
             /\ ~consumed[k].failed
             /\ ~StartsUnit(consumed[k].t)
             /\ consumed[k].t # tokenEOF)
                => (panicked = "" /\ err # NoErr)

\* the characters that end a raw value when they are not escaped
RefDelimiters == {";", ",", "!", "=", ")", "*"}

\* the first position at or after i of in that holds no white space
RECURSIVE SkipSpace(_, _)
SkipSpace(in, i) ==
    IF i <= Len(in) /\ IsSpace(in[i]) THEN SkipSpace(in, i + 1) ELSE i

\* the raw value that starts at position i of in, read pair-wise: a backslash
\* and the character after it stand for that character, any other character
\* stands for itself, and the value ends before white space, before an
\* unescaped delimiter and at the end of the input; val is the text after acc
\* and to is the position of the last character read
RECURSIVE RefValue(_, _, _)
RefValue(in, i, acc) ==
    IF i > Len(in) THEN [val |-> acc, to |-> Len(in)]
    ELSE IF in[i] = "\\"
    THEN IF i + 1 > Len(in) \/ IsSpace(in[i + 1]) THEN [val |-> acc, to |-> i]
         ELSE RefValue(in, i + 2, Append(acc, in[i + 1]))
    ELSE IF IsSpace(in[i]) \/ in[i] \in RefDelimiters THEN [val |-> acc, to |-> i - 1]
    ELSE RefValue(in, i + 1, Append(acc, in[i]))

\* column==va\,lue,b==a in the letters of the chain units
EscapedExample ==
    <<"m", "=", "=", "n", "\\", ",", "o", ",", "b", "=", "=", "c">>

EscapedExampleTree ==
    ExprTree(<<BinaryTree(tokenTypeString(tokenOR),
                 BinaryTree(tokenTypeString(tokenCompareEqual),
                            ConstTree(<<"m">>, TRUE, FALSE, FALSE, FALSE),
                            ConstTree(<<"n", ",", "o">>, FALSE, FALSE, FALSE, FALSE)),
                 BinaryTree(tokenTypeString(tokenCompareEqual),
                            ConstTree(<<"b">>, TRUE, FALSE, FALSE, FALSE),
                            ConstTree(<<"c">>, FALSE, FALSE, FALSE, FALSE)))>>)

\* C13: the text of every value token the parser read is the raw value at
\* its place in the input with every escaping backslash dropped and every
\* escaped character kept, and it ends where an unescaped delimiter, white
\* space or the end of the input ends it; m==n\,o,b==c is parsed as the
\* comparison of m with `n,o` joined by OR to b==c.
C13_EscapedValue ==
    /\ Parsed =>
          \A k \in 1..Len(consumed) :
              (consumed[k].t = tokenValue /\ ~consumed[k].failed)
                  => LET r == RefValue(input, SkipSpace(input, consumed[k].from + 1), <<>>)
                     IN consumed[k].val = r.val /\ consumed[k].to = r.to
    /\ (Parsed /\ input = EscapedExample)
          => (Success /\ ResultTree = EscapedExampleTree)

\* a value token was read whose text holds a delimiter that was escaped in
\* the input and whose text goes on after it
C13_Witness ==
    /\ Success
    /\ \E k \in 1..Len(consumed) :
          /\ consumed[k].t = tokenValue
          /\ \E i \in 1..(Len(consumed[k].val) - 1) : consumed[k].val[i] \in RefDelimiters

\* the argument Constants of the heap, and the reads of an argument value
\* that its validator accepted: handleArgumentConstant allocates one Constant
\* for each such read, in the order of the reads
ArgumentNodes == {n \in 1..Len(heap) : heap[n].type = NodeTypeConstant /\ ~heap[n].selector}

ComparatorBefore(j) ==
    LET ks == {k \in 1..(j - 1) : consumed[k].site = "comparator"}
    IN consumed[CHOOSE m \in ks : \A k \in ks : k <= m].t

ArgumentValueReads ==
    {j \in 1..Len(consumed) :
        /\ consumed[j].site = "argument"
        /\ ~consumed[j].failed
        /\ consumed[j].t = tokenValue
        /\ validatorFor(ComparatorBefore(j), consumed[j].val).ok}

\* the argument Constant allocated for the read j of ArgumentValueReads
ArgumentNodeOf(j) ==
    CHOOSE n \in ArgumentNodes :
        Cardinality({m \in ArgumentNodes : m <= n})
            = Cardinality({i \in ArgumentValueReads : i <= j})

\* the read j is the first token of an argument
FirstOfArgument(j) == consumed[j - 1].site = "comparator"

\* the input text of the read j holds a backslash
ReadHasEscape(j) ==
    \E i \in (consumed[j].from + 1)..consumed[j].to : input[i] = "\\"

\* C14 as claimed: the value stored in an argument Constant never holds an
\* asterisk.
C14_NoAsteriskInValue ==
    Parsed =>
        \A n \in ArgumentNodes :
            \A i \in 1..Len(heap[n].value) : heap[n].value[i] # "*"

\* C14: an argument is read as at most one wildcard token, then a value
\* token, then at most one wildcard token.  A token that is not a value where
\* the value is expected, a second wildcard and the end of input among them,
\* is the syntax error expected a value.  The Constant of an accepted value
\* stores the text of the value token, has the prefix flag exactly when a
\* wildcard token was read before the value and the suffix flag exactly when
\* one was read after it, and its value holds an asterisk only where the input
\* escaped one.
C14_Wildcards ==
    Parsed =>
        \A j \in 1..Len(consumed) :
            /\ (consumed[j].site = "argument" /\ ~consumed[j].failed) =>
                  /\ FirstOfArgument(j)
                        \/ (/\ consumed[j - 1].site = "argument"
                            /\ consumed[j - 1].t = tokenWildcard
                            /\ FirstOfArgument(j - 1))
                  /\ (FirstOfArgument(j) /\ consumed[j].t = tokenWildcard)
                        => (j < Len(consumed) /\ consumed[j + 1].site = "argument")
                  /\ (consumed[j].t # tokenValue
                        /\ ~(FirstOfArgument(j) /\ consumed[j].t = tokenWildcard))
                        => /\ j = Len(consumed)
                           /\ panicked = ""
                           /\ IsErrorAt(err, "syntax error", consumed[j].to)
                           /\ err.got = tokenTypeString(consumed[j].t)
                           /\ err.hint = "a value"
            /\ j \in ArgumentValueReads =>
                  LET n == ArgumentNodeOf(j) IN
                  /\ Cardinality(ArgumentNodes) = Cardinality(ArgumentValueReads)
                  /\ heap[n].value = consumed[j].val
                  /\ heap[n].prefixWildcard = ~FirstOfArgument(j)
                  /\ heap[n].suffixWildcard
                        = (j < Len(consumed) /\ consumed[j + 1].site = "suffix")
                  /\ ~ReadHasEscape(j)
                        => \A i \in 1..Len(heap[n].value) : heap[n].value[i] # "*"
            /\ consumed[j].site = "suffix" =>
                  /\ consumed[j].t = tokenWildcard
                  /\ consumed[j - 1].site = "argument"
                  /\ consumed[j - 1].t = tokenValue

\* an argument was read with a wildcard token before and after its value,
\* and Parse succeeded
C14_Witness ==
    /\ Success
    /\ \E j \in ArgumentValueReads :
          /\ ~FirstOfArgument(j)
          /\ j < Len(consumed)
          /\ consumed[j + 1].site = "suffix"
          /\ heap[ArgumentNodeOf(j)].prefixWildcard
          /\ heap[ArgumentNodeOf(j)].suffixWildcard

\* the selector Constants of the heap, and the reads of a value where a unit
\* is expected that the lookahead after them did not fail: build allocates
\* one selector Constant for each such read, in the order of the reads
SelectorNodes == {n \in 1..Len(heap) : heap[n].type = NodeTypeConstant /\ heap[n].selector}

\* the token that follows the first k characters of the input
NextTokenAt(k) == ConsumeToken([NewLexer(input) EXCEPT !.pos = k])

UnitValueReads ==
    {j \in 1..Len(consumed) :
        /\ consumed[j].site = "unit"
        /\ ~consumed[j].failed
        /\ consumed[j].t = tokenValue
        /\ NextTokenAt(consumed[j].to).err = NoErr}

\* the selector Constant allocated for the read j of UnitValueReads
SelectorNodeOf(j) ==
    CHOOSE n \in SelectorNodes :
        Cardinality({m \in SelectorNodes : m <= n})
            = Cardinality({i \in UnitValueReads : i <= j})

\* the Binary nodes that hold node n as their left child
LeftParents(n) ==
    {b \in 1..Len(heap) : heap[b].type = NodeTypeBinary /\ heap[b].nodes[1] = n}

LogicOperators == {tokenTypeString(tokenAND), tokenTypeString(tokenOR)}

\* C15: a value read where a unit is expected becomes a selector Constant of
\* that text; its unary flag is true exactly when a logic operator, the end of
\* input or a closing brace follows it; a unary selector is the left side of
\* no comparison, and is the left child of the logic operator that follows
\* it; a selector that is not unary is the left child of its comparison; a
\* value read directly under the root and followed by a closing brace fails
\* with invalid closing brace.
C15_UnarySelector ==
    Parsed =>
        \A j \in UnitValueReads :
            LET n == SelectorNodeOf(j)
                nx == NextTokenAt(consumed[j].to).t
            IN
            /\ Cardinality(SelectorNodes) = Cardinality(UnitValueReads)
            /\ heap[n].value = consumed[j].val
            /\ heap[n].unary = (isLogicToken(nx) \/ nx = tokenEOF \/ nx = tokenBraceClose)
            /\ heap[n].unary =>
                  /\ \A b \in LeftParents(n) : heap[b].operator \in LogicOperators
                  /\ isLogicToken(nx) =>
                        \E b \in LeftParents(n) : heap[b].operator = tokenTypeString(nx)
            /\ ~heap[n].unary =>
                  \E b \in LeftParents(n) : heap[b].operator \notin LogicOperators
            /\ (j = 1 /\ nx = tokenBraceClose) =>
                  (panicked = "" /\ IsErrorAt(err, "invalid closing brace", consumed[j].to))

\* Parse succeeded on an input with a unary selector before a closing brace
\* and a unary selector before a logic operator
C15_Witness ==
    /\ Success
    /\ \E j \in UnitValueReads :
          /\ NextTokenAt(consumed[j].to).t = tokenBraceClose
          /\ heap[SelectorNodeOf(j)].unary
    /\ \E j \in UnitValueReads :
          /\ isLogicToken(NextTokenAt(consumed[j].to).t)
          /\ heap[SelectorNodeOf(j)].unary

\* Accept has run on the tree of a successful Parse
Accepted == pc = "accepted"

\* the expression entered and expression left callbacks of cbs are balanced
\* and nested, and the pair that opens first closes last
NestingOK(cbs) ==
    LET depth(i) ==
            Cardinality({k \in 1..i : cbs[k] = VisitExpressionEntered})
            - Cardinality({k \in 1..i : cbs[k] = VisitExpressionLeft})
    IN /\ cbs # <<>>
       /\ cbs[1] = VisitExpressionEntered
       /\ \A i \in 1..Len(cbs) : depth(i) >= 0 /\ (depth(i) = 0 <=> i = Len(cbs))

\* the method and the text of the callback for each token of toks in the
\* order of the text: a brace enters or leaves an expression, a logic operator
\* and a comparator are visited with their name, a value is visited as an
\* argument when it follows a comparator, with or without a wildcard between,
\* and as a selector otherwise; a wildcard has no callback of its own
RECURSIVE TokenCallbacks(_, _)
TokenCallbacks(toks, i) ==
    IF i > Len(toks) THEN <<>>
    ELSE
    LET t == toks[i].t
        afterComparator ==
            \/ i > 1 /\ isCompareToken(toks[i - 1].t)
            \/ i > 2 /\ toks[i - 1].t = tokenWildcard /\ isCompareToken(toks[i - 2].t)
    IN (CASE t = tokenBraceOpen -> <<<<"VisitExpressionEntered", <<>>>>>>
          [] t = tokenBraceClose -> <<<<"VisitExpressionLeft", <<>>>>>>
          [] isLogicToken(t) -> <<<<"VisitOperator", tokenTypeString(t)>>>>
          [] isCompareToken(t) -> <<<<"VisitComparison", tokenTypeString(t)>>>>
          [] t = tokenValue ->
               <<<<IF afterComparator THEN "VisitArgument" ELSE "VisitSelector", toks[i].val>>>>
          [] OTHER -> <<>>)
       \o TokenCallbacks(toks, i + 1)

\* C16: Accept on the tree of a successful Parse returns, its expression
\* entered and expression left callbacks are balanced and nested with the
\* pair of the root outermost, and between that pair the callbacks are those
\* of the tokens of the input in the order of the text.
C16_InfixCallbacks ==
    Accepted =>
        /\ \A i \in 1..Len(visited) : visited[i] # StackOverflowCallback
        /\ NestingOK(visited)
        /\ [i \in 1..Len(visited) |-> <<visited[i].method, visited[i].text>>]
             = <<<<"VisitExpressionEntered", <<>>>>>>
               \o TokenCallbacks(Tokens(input), 1)
               \o <<<<"VisitExpressionLeft", <<>>>>>>

\* the positions after a match of \d+(?:\.\d+)? that starts at position i of s
RefNumberEnds(s, i) ==
    {j \in (i + 1)..(Len(s) + 1) :
        \/ \A k \in i..(j - 1) : s[k] \in Digits
        \/ \E d \in (i + 1)..(j - 2) :
              /\ s[d] = "."
              /\ \A k \in (i..(j - 1)) \ {d} : s[k] \in Digits}

\* the positions after a match, from one of the positions of S, of the
\* optional components of the unit markers units in their order
RECURSIVE RefComponentEnds(_, _, _)
RefComponentEnds(s, S, units) ==
    IF units = <<>> THEN S
    ELSE RefComponentEnds(s,
             S \cup {j + 1 : j \in {e \in UNION {RefNumberEnds(s, i) : i \in S} :
                                       e <= Len(s) /\ s[e] = Head(units)}},
             Tail(units))

\* s matches the number pattern: an optional sign, then digits and dots
RefIsNumber(s) ==
    \E from \in {1, 2} :
        /\ from = 2 => (Len(s) >= 1 /\ s[1] \in {"+", "-"})
        /\ Len(s) >= from
        /\ \A k \in from..Len(s) : s[k] \in Digits \cup {"."}

\* s matches the duration pattern: an optional sign, P, the optional
\* components of Y, M, W and D, and optionally T and the optional components
\* of H, M and S
RefIsDuration(s) ==
    \E from \in {1, 2} :
        /\ from = 2 => (Len(s) >= 1 /\ s[1] \in {"+", "-"})
        /\ Len(s) >= from
        /\ s[from] = "P"
        /\ LET dateEnds == RefComponentEnds(s, {from + 1}, <<"Y", "M", "W", "D">>)
               timeEnds == RefComponentEnds(s, {e + 1 : e \in {d \in dateEnds :
                                                     d <= Len(s) /\ s[d] = "T"}},
                                            <<"H", "M", "S">>)
           IN Len(s) + 1 \in dateEnds \cup timeEnds

RelationalComparators == {tokenCompareGt, tokenCompareLt, tokenCompareGte, tokenCompareLte}

\* the reads of an argument value after a comparator of the set cmps
ArgumentReadsOf(cmps) ==
    {j \in 1..Len(consumed) :
        /\ consumed[j].site = "argument"
        /\ ~consumed[j].failed
        /\ consumed[j].t = tokenValue
        /\ ComparatorBefore(j) \in cmps}

IsBracketed(v) == Len(v) >= 2 /\ v[1] = "[" /\ v[Len(v)] = "]"

\* C18: an argument of the comparator =in= that is wrapped in square
\* brackets is accepted with the recommended type tuple; any other argument
\* makes Parse fail with the syntax error got the literal but expected in
\* clause [a+b+c].
C18_InClause ==
    Parsed =>
        \A j \in ArgumentReadsOf({tokenComapreIn}) :
            LET v == consumed[j].val IN
            IF IsBracketed(v)
            THEN /\ j \in ArgumentValueReads
                 /\ heap[ArgumentNodeOf(j)].recommended = "tuple"
            ELSE /\ j = Len(consumed)
                 /\ panicked = ""
                 /\ IsErrorAt(err, "syntax error", consumed[j].to)
                 /\ err.got = v
                 /\ err.hint = "in clause [a+b+c]"

EqualityComparators == {tokenCompareEqual, tokenCompareNotEqual, tokenCompareQ}

\* the recommended type of the literal v: datetime before duration before
\* number before string
RefClass(v) ==
    IF isDateValue(v) THEN ValueRecommendationDateTime
    ELSE IF RefIsDuration(v) THEN ValueRecommendationDuration
    ELSE IF RefIsNumber(v) THEN ValueRecommendationNumber
    ELSE ValueRecommendationString

\* C19: every argument of the comparators ==, != and =q= is accepted: its
\* node is built with the literal as value and with the recommended type
\* datetime if the literal is an RFC 3339 date-time, else duration if it
\* matches the duration pattern, else number if it matches the number
\* pattern, else string; two arguments with the same literal get the same
\* recommended type.
C19_EqualityArgument ==
    Parsed =>
        /\ \A j \in ArgumentReadsOf(EqualityComparators) :
              /\ j \in ArgumentValueReads
              /\ heap[ArgumentNodeOf(j)].value = consumed[j].val
              /\ heap[ArgumentNodeOf(j)].recommended = RefClass(consumed[j].val)
              /\ ~(err.kind = "syntax error" /\ err.got = consumed[j].val
                     /\ err.hint = "number or date or duration")
        /\ \A j, k \in ArgumentReadsOf(EqualityComparators) :
              consumed[j].val = consumed[k].val
                  => heap[ArgumentNodeOf(j)].recommended
                       = heap[ArgumentNodeOf(k)].recommended

\* Parse succeeded on two comparisons of different comparators among ==, !=
\* and =q= whose arguments are the same date-time
C19_Witness ==
    /\ Success
    /\ \E j, k \in ArgumentReadsOf(EqualityComparators) :
          /\ j < k
          /\ ComparatorBefore(j) # ComparatorBefore(k)
          /\ consumed[j].val = consumed[k].val
          /\ heap[ArgumentNodeOf(j)].recommended = ValueRecommendationDateTime
          /\ heap[ArgumentNodeOf(k)].recommended = ValueRecommendationDateTime

\* tryParseISO8601Duration has returned, with a duration and possibly an error
Converted == pc = "converted" /\ converted.panic = ""

\* tryParseISO8601Duration has returned a duration and no error
ConvertedOK == Converted /\ converted.err = NoDurationErr

\* the sum of the digits of ds from index i on, each times its place value
RECURSIVE PlaceSum(_, _)
PlaceSum(ds, i) ==
    IF i > Len(ds) THEN 0
    ELSE (CHOOSE n \in 0..9 :
             <<"0", "1", "2", "3", "4", "5", "6", "7", "8", "9">>[n + 1] = ds[i])
           * Pow10(Len(ds) - i)
         + PlaceSum(ds, i + 1)

\* the characters a number of a duration is written with
NumberChars == Digits \cup {".", "-", "+"}

\* the run of number characters of the literal that ends before index k
NumberBefore(k) ==
    LET from == CHOOSE i \in 1..k :
                    /\ \A j \in i..(k - 1) : input[j] \in NumberChars
                    /\ i = 1 \/ input[i - 1] \notin NumberChars
    IN SubSeq(input, from, k - 1)

\* the value val is the number the run of number characters spells
Spells(val, run) ==
    LET r == SelectSeq(run, LAMBDA c : c # "+")
        neg == Len(r) > 0 /\ r[1] = "-"
        ds == SelectSeq(r, LAMBDA c : c \in Digits)
        dots == {i \in 1..Len(r) : r[i] = "."}
        frac == IF dots = {} THEN 0 ELSE Cardinality({i \in 1..Len(r) : \A j \in dots : i > j})
        n == IF neg THEN 0 - PlaceSum(ds, 1) ELSE PlaceSum(ds, 1)
    IN /\ Len(ds) > 0
       /\ val.e >= 0
       /\ val.e = 0 \/ val.m % 10 # 0
       /\ val.m * Pow10(frac) = n * Pow10(val.e)

\* the indexes of the unit marker c in the literal; with timed, those after
\* a T, without, those with no T before them
MarkersAt(c, timed) ==
    {k \in 1..Len(input) :
        /\ input[k] = c
        /\ timed <=> \E t \in 1..(k - 1) : input[t] = "T"}

\* the component val is the number before the last marker of K, zero if K
\* is empty
ComponentOf(val, K) ==
    IF K = {} THEN val = Zero
    ELSE Spells(val, NumberBefore(CHOOSE k \in K : \A j \in K : j <= k))

\* C20: the duration tryParseISO8601Duration returns has Negative set
\* exactly when the literal starts with `-`; when it returns no error, each
\* component is the number before its unit marker (Y years, W weeks, D days,
\* H hours, S seconds, M months before a T and minutes after it) and zero
\* without a marker, as for P3DT4H59M, P1M and PT1M; the empty literal gives
\* the zero duration and no error.
C20_DurationComponents ==
    /\ Converted =>
          converted.d.Negative = (Len(input) > 0 /\ input[1] = "-")
    /\ ConvertedOK =>
          LET d == converted.d
          IN /\ ComponentOf(d.Years, MarkersAt("Y", TRUE) \cup MarkersAt("Y", FALSE))
             /\ ComponentOf(d.Months, MarkersAt("M", FALSE))
             /\ ComponentOf(d.Weeks, MarkersAt("W", TRUE) \cup MarkersAt("W", FALSE))
             /\ ComponentOf(d.Days, MarkersAt("D", TRUE) \cup MarkersAt("D", FALSE))
             /\ ComponentOf(d.Hours, MarkersAt("H", TRUE) \cup MarkersAt("H", FALSE))
             /\ ComponentOf(d.Minutes, MarkersAt("M", TRUE))
             /\ ComponentOf(d.Seconds, MarkersAt("S", TRUE) \cup MarkersAt("S", FALSE))
    /\ pc = "converted" /\ input = <<>> =>
          converted = [d |-> ZeroDuration, err |-> NoDurationErr, panic |-> ""]
    /\ pc = "converted" /\ input = <<"P", "3", "D", "T", "4", "H", "5", "9", "M">> =>
          /\ converted.err = NoDurationErr /\ converted.panic = ""
          /\ converted.d = [ZeroDuration EXCEPT !.Days = [m |-> 3, e |-> 0],
                                                !.Hours = [m |-> 4, e |-> 0],
                                                !.Minutes = [m |-> 59, e |-> 0],
                                                !.string = input]
    /\ pc = "converted" /\ input = <<"P", "1", "M">> =>
          /\ ConvertedOK
          /\ converted.d = [ZeroDuration EXCEPT !.Months = [m |-> 1, e |-> 0],
                                                !.string = input]
    /\ pc = "converted" /\ input = <<"P", "T", "1", "M">> =>
          /\ ConvertedOK
          /\ converted.d = [ZeroDuration EXCEPT !.Minutes = [m |-> 1, e |-> 0],
                                                !.string = input]

\* a negative literal with months before its T and minutes after it was
\* converted without error
C20_Witness ==
    /\ ConvertedOK
    /\ converted.d.Negative
    /\ converted.d.Months # Zero
    /\ converted.d.Minutes # Zero
    /\ converted.d.Months # converted.d.Minutes

\* tryParseISO8601Duration has returned or panicked
TryParseDone == pc = "converted"

\* the unit markers
UnitMarkers == {"Y", "M", "W", "D", "H", "S"}

\* the number of characters of the optional sign of the literal
SignLen == IF Len(input) > 0 /\ input[1] \in {"-", "+"} THEN 1 ELSE 0

\* the literal is a sign or nothing, P, digits and then one character that is
\* neither a unit marker nor part of a number nor T
EndsInBadMarker ==
    /\ Len(input) >= SignLen + 3
    /\ input[SignLen + 1] = "P"
    /\ \A i \in (SignLen + 2)..(Len(input) - 1) : input[i] \in Digits
    /\ input[Len(input)] \notin UnitMarkers \cup NumberChars \cup {"T"}

\* C21: tryParseISO8601Duration returns an error value for every non-empty
\* literal whose optional sign is not followed by P, a literal that is only a
\* sign included, and for every literal with a character that is neither a
\* unit marker nor part of a number; the error for a bad marker after a
\* number names that character; P1X, 1Y1D, +1Y1D and PD are errors.
C21_DurationErrors ==
    TryParseDone =>
        /\ (Len(input) > 0 /\ (Len(input) = SignLen \/ input[SignLen + 1] # "P"))
              => /\ converted.panic = ""
                 /\ converted.err # NoDurationErr
        /\ (\E i \in (SignLen + 1)..Len(input) :
                input[i] \notin UnitMarkers \cup NumberChars \cup {"P", "T"})
              => /\ converted.panic = ""
                 /\ converted.err # NoDurationErr
        /\ EndsInBadMarker
              => /\ converted.panic = ""
                 /\ converted.err = DurationErr("unexpected token", <<input[Len(input)]>>)
        /\ input \in {<<"P", "1", "X">>, <<"1", "Y", "1", "D">>, <<"+", "1", "Y", "1", "D">>,
                       <<"P", "D">>}
              => /\ converted.panic = ""
                 /\ converted.err # NoDurationErr

\* AsMilliseconds and AsSeconds have returned
Measured == pc = "measured"

\* the thousands of milliseconds of one year, month, week, day, hour, minute
\* and second: 12 * 2629800000, 2629800000, 604800000, 86400000, 3600000,
\* 60000 and 1000 milliseconds
RefThousands ==
    [Years |-> 12 * 2629800, Months |-> 2629800, Weeks |-> 604800, Days |-> 86400,
     Hours |-> 3600, Minutes |-> 60, Seconds |-> 1]

\* the components of a duration
Components == {"Years", "Months", "Weeks", "Days", "Hours", "Minutes", "Seconds"}

\* the sum over the components cs of d of n times the numerator of the
\* component over 10^e times its thousands of milliseconds
RECURSIVE RefSum(_, _, _)
RefSum(d, cs, e) ==
    IF cs = {} THEN 0
    ELSE LET c == CHOOSE x \in cs : TRUE
         IN d[c].m * Pow10(e - d[c].e) * RefThousands[c] + RefSum(d, cs \ {c}, e)

\* a and b have opposite signs
Opposite(a, b) == (a < 0 /\ b > 0) \/ (a > 0 /\ b < 0)

\* C22: AsMilliseconds is the sum of the components times their
\* milliseconds, rounded to the nearest millisecond; without months and
\* years and with whole components it is the exact sum (277140000 for
\* P3DT4H59M, 604800000 for P1W); AsSeconds is AsMilliseconds divided by
\* 1000, truncated.
C22_AsMilliseconds ==
    Measured =>
        LET d == converted.d
            ms == measured.ms
            e == CHOOSE x \in {d[c].e : c \in Components} :
                     \A c \in Components : d[c].e <= x
            sum == RefSum(d, Components, e)
            off == sum - ms.thousands * Pow10(e)
            left == (ms.thousands - measured.s) * 1000 + ms.units
        IN /\ Abs(ms.units) < 1000
           /\ ~Opposite(ms.thousands, ms.units)
           /\ 2 * Abs(1000 * off - ms.units * Pow10(e)) <= Pow10(e)
           /\ (d.Months = Zero /\ d.Years = Zero /\ e = 0)
                 => ms = [thousands |-> sum, units |-> 0]
           /\ input = <<"P", "3", "D", "T", "4", "H", "5", "9", "M">>
                 => ms = [thousands |-> 277140, units |-> 0]
           /\ input = <<"P", "1", "W">> => ms = [thousands |-> 604800, units |-> 0]
           /\ Abs(left) < 1000
           /\ ~Opposite(left, ms.thousands)
           /\ ~Opposite(left, ms.units)

\* AsMilliseconds rounded a sum with a fraction of a millisecond upwards
C22_Witness ==
    /\ Measured
    /\ converted.err = NoDurationErr
    /\ converted.d.Seconds = [m |-> 26, e |-> 4]
    /\ measured.ms = [thousands |-> 0, units |-> 3]

\* a later call of Parse on a used parser has returned or panicked
ParsedAgain == pc = "parsed again"

\* C23: a call of Parse on a parser that earlier calls have used gives the
\* tree or the error, with its position, of Parse on a new parser for the
\* same input, and its first token is read from offset 0.
C23_ParseReuse ==
    ParsedAgain =>
        /\ heap = Parse(input).p.heap
        /\ err = Parse(input).err
        /\ panicked = Parse(input).panic
        /\ consumed # <<>> => consumed[1].from = 0

\* a later call on a parser has failed on the second line of its input,
\* after an earlier call on the same parser
C23_Witness ==
    /\ ParsedAgain
    /\ err # NoErr
    /\ err.hasPos
    /\ err.ln = 2

\* the last call on the lexer was PeekNextToken
Peeked == pc = "lexing" /\ returned.op = "PeekNextToken"

\* the last call on the lexer was ConsumeToken
Consumed == pc = "lexing" /\ returned.op = "ConsumeToken"

\* C24: after PeekNextToken the offset, line, column and last literal of the
\* lexer are those before the call, whether it returned a token or an error;
\* for a value it returns the literal at the cursor; and a ConsumeToken right
\* after a PeekNextToken returns the token kind and the error of the peek.
C24_PeekRestores ==
    /\ Peeked =>
          /\ lex.pos = returned.before.pos
          /\ lex.ln = returned.before.ln
          /\ lex.posInLine = returned.before.posInLine
          /\ lex.currentVal = returned.before.currentVal
          /\ lex = returned.before
          /\ (returned.t = tokenValue /\ returned.err = NoErr)
                => returned.val = RefValue(input, SkipSpace(input, lex.pos + 1), <<>>).val
    /\ (Consumed /\ returned.earlier.op = "PeekNextToken") =>
          /\ returned.t = returned.earlier.t
          /\ returned.err = returned.earlier.err

\* a peek that returned an error, after a value was read, was followed by a
\* ConsumeToken
C24_Witness ==
    /\ Consumed
    /\ returned.earlier.op = "PeekNextToken"
    /\ returned.err # NoErr
    /\ returned.before.currentVal # <<>>
    /\ returned.before.pos > 0

\* the position of the first character of the token read by the last call
TokenStart == SkipSpace(input, returned.before.pos + 1)

\* the last call read a comparator: its token starts with = or !
ReadComparator ==
    /\ returned.op \in {"ConsumeToken", "PeekNextToken"}
    /\ TokenStart <= Len(input)
    /\ input[TokenStart] \in {"=", "!"}

\* the position after the first character of the comparator at which its
\* reading ends: the first = or character outside the comparator letters,
\* or the position after the input
ComparatorStop ==
    LET stops == {j \in (TokenStart + 1)..Len(input) :
                     input[j] = "=" \/ input[j] \notin {"g", "l", "t", "e", "q", "i", "n"}}
    IN IF stops = {} THEN Len(input) + 1
       ELSE CHOOSE j \in stops : \A k \in stops : j <= k

\* C25: when the reading of a comparator meets a character outside
\* =, g, l, t, e, q, i, n or the end of the input, the lexer returns the
\* error unexpected input with the position, the text of the comparator read
\* so far (with the character that stopped it) and the list of the valid
\* comparators; title=ffoo* fails at ln:1:6 with got =f.
C25_PartialComparator ==
    (pc = "lexing" /\ ReadComparator
       /\ (ComparatorStop > Len(input) \/ input[ComparatorStop] # "=")) =>
        /\ returned.err.kind = "unexpected input"
        /\ returned.err.hasPos
        /\ returned.err.ln = LineAt(input, ComparatorStop - 1)
        /\ returned.err.col = ColAt(input, ComparatorStop - 1)
        /\ returned.err.hint = "one of ==,!=,=gt=,=ge=,=lt=,=le=,=in=,=q="
        /\ returned.err.got
             = SubSeq(input, TokenStart,
                      IF ComparatorStop > Len(input) THEN Len(input) ELSE ComparatorStop)
        /\ (input = <<"t", "i", "t", "l", "e", "=", "f", "f", "o", "o", "*">>
              /\ returned.before.pos = 5)
             => (returned.err.ln = 1 /\ returned.err.col = 6
                 /\ returned.err.got = <<"=", "f">>)

\* the token of the comparator spelled c in lower case, tokenEOF if c is none
RefComparatorToken(c) ==
    IF c = <<"=", "=">> THEN tokenCompareEqual
    ELSE IF c = <<"!", "=">> THEN tokenCompareNotEqual
    ELSE IF c = <<"=", "g", "t", "=">> THEN tokenCompareGt
    ELSE IF c = <<"=", "g", "e", "=">> THEN tokenCompareGte
    ELSE IF c = <<"=", "l", "t", "=">> THEN tokenCompareLt
    ELSE IF c = <<"=", "l", "e", "=">> THEN tokenCompareLte
    ELSE IF c = <<"=", "i", "n", "=">> THEN tokenComapreIn
    ELSE IF c = <<"=", "q", "=">> THEN tokenCompareQ
    ELSE tokenEOF

\* the position after the first character of the comparator at which its
\* text ends when letters of both cases are read: the first = or character
\* that is no letter of a comparator in either case
SpelledStop ==
    LET stops == {j \in (TokenStart + 1)..Len(input) :
                     \/ input[j] = "="
                     \/ input[j] \notin {"g", "l", "t", "e", "q", "i", "n",
                                          "G", "L", "T", "E", "Q", "I", "N"}}
    IN IF stops = {} THEN Len(input) + 1
       ELSE CHOOSE j \in stops : \A k \in stops : j <= k

\* C26: a comparator text in upper, lower or mixed case, read up to its
\* closing =, gives the token of its lower-case spelling, and a text read up
\* to the closing = that is none of the eight comparators gives the error
\* unexpected input.
C26_CaseInsensitive ==
    (pc = "lexing" /\ ReadComparator /\ SpelledStop <= Len(input)
       /\ input[SpelledStop] = "=") =>
        LET text == SubSeq(input, TokenStart, SpelledStop)
            lower == [i \in 1..Len(text) |->
                         IF text[i] = "G" THEN "g" ELSE IF text[i] = "L" THEN "l"
                         ELSE IF text[i] = "T" THEN "t" ELSE IF text[i] = "E" THEN "e"
                         ELSE IF text[i] = "Q" THEN "q" ELSE IF text[i] = "I" THEN "i"
                         ELSE IF text[i] = "N" THEN "n" ELSE text[i]]
        IN IF RefComparatorToken(lower) # tokenEOF
           THEN /\ returned.err = NoErr
                /\ returned.t = RefComparatorToken(lower)
           ELSE /\ returned.err.kind = "unexpected input"
                /\ returned.err.got = text
                /\ returned.t = tokenEOF

\* C27: every ConsumeToken call of Parse advances the offset by at least one
\* character or returns end of input, each call starts at the offset the
\* call before it ended at, the first at offset 0, every call of build reads
\* one token before anything else, and the calls of build are no more than
\* the tokens of the input and its end.
C27_Progress ==
    Parsed =>
        /\ \A j \in 1..Len(consumed) :
              /\ consumed[j].from <= consumed[j].to
              /\ consumed[j].to <= Len(input)
              /\ \/ consumed[j].from < consumed[j].to
                 \/ consumed[j].t = tokenEOF /\ ~consumed[j].failed
              /\ consumed[j].from = (IF j = 1 THEN 0 ELSE consumed[j - 1].to)
        /\ builds = Cardinality({j \in 1..Len(consumed) : consumed[j].site = "unit"})
        /\ builds >= 1
        /\ builds <= Len(Tokens(input)) + 1

\* Parse returned a tree after three calls of build and a token at the end of
\* the input
C27_Witness ==
    /\ Success
    /\ builds >= 3
    /\ Len(consumed) >= 6
    /\ consumed[Len(consumed)].to = Len(input)

\* C28: Parse returns a tree or an error on every input: it never panics in
\* Add on a Binary node with two children, on an Expression with a child or
\* on a Constant, also with a group between two logic operators as in
\* a==b;(c==d);e==f.
C28_NoPanic ==
    Parsed => panicked = ""

\* the duration d holds, component by component, the numbers the literal
\* spells before its unit markers
SpellsLiteral(d) ==
    /\ d.Negative = (Len(input) > 0 /\ input[1] = "-")
    /\ ComponentOf(d.Years, MarkersAt("Y", FALSE))
    /\ ComponentOf(d.Months, MarkersAt("M", FALSE))
    /\ ComponentOf(d.Weeks, MarkersAt("W", FALSE))
    /\ ComponentOf(d.Days, MarkersAt("D", FALSE))
    /\ ComponentOf(d.Hours, MarkersAt("H", TRUE))
    /\ ComponentOf(d.Minutes, MarkersAt("M", TRUE))
    /\ ComponentOf(d.Seconds, MarkersAt("S", TRUE))

\* C29: every literal that matches durationRegex, and so is classified as a
\* duration, P, PT, P1DT and -PT included, is converted by
\* tryParseISO8601Duration without an error and without a panic into the
\* components the literal spells.
C29_ClassifiedConverts ==
    TryParseDone /\ durationRegex(input) =>
        /\ converted.panic = ""
        /\ converted.err = NoDurationErr
        /\ SpellsLiteral(converted.d)

\* C30: tryParseISO8601Duration reads no index at or past the length of its
\* input, also for a literal that ends in a number without a unit marker
\* such as P1 and for a literal that is only a sign: it returns a duration
\* or an error value and never fails with an index out of range.
C30_NoOutOfRange ==
    TryParseDone => converted.panic = ""

====
